---- MODULE Spec2Model ----
(***************************************************************************)
(* Verification model of USB-Monitor: the device registry (DeviceManager)  *)
(* with its power and bandwidth monitors, the authorization engine         *)
(* (DeviceAuthorizer) and the security coordinator (SecurityManager).      *)
(*                                                                         *)
(* Time is counted in half hours since the epoch (UnitsPerHour == 2), so   *)
(* that the truncation of duration_cast<hours> is visible.                 *)
(***************************************************************************)
EXTENDS Integers, Sequences, FiniteSets, TLC

VARIABLES
    now,                 \* std::chrono::system_clock::now(), in half hours
    clockSteps,          \* number of clock advances taken so far
    dev,                 \* UsbDevice objects handed to the security classes
    policy,              \* DeviceAuthorizer::Private::policy
    deviceStates,        \* DeviceAuthorizer::Private::deviceStates
    trustedCertificates, \* DeviceAuthorizer::Private::trustedCertificates
    customMethods,       \* DeviceAuthorizer::Private::customMethods
    authMutex,           \* DeviceAuthorizer::Private::stateMutex
    signals,             \* the signals the last operation emitted, in order
    lastAuth,            \* record of the last DeviceAuthorizer::authorizeDevice call
    rules,               \* SecurityState::rules
    events,              \* SecurityState::events
    authorizedDevices,   \* SecurityState::authorizedDevices
    currentLevel,        \* SecurityState::currentLevel
    lastSec,             \* record of the last SecurityManager call
    phase,               \* "constructor" until DeviceManager is constructed
    attached,            \* the devices libusb_get_device_list returns
    plugs,               \* how often each device key was plugged in
    devices,             \* DeviceManager::Private::devices
    objects,             \* the UsbDevice objects created so far
    powerTimers,         \* PowerManager::Private::monitoringTimers
    bwTimers,            \* BandwidthMonitor::Private::monitoringTimers
    powerStats,          \* keys of PowerManager::Private::deviceStats
    bwStats,             \* keys of BandwidthMonitor::Private::deviceStats
    devicesMutex,        \* DeviceManager::Private::devicesMutex
    thread,              \* where each thread is in the operation it runs
    addedCount,          \* deviceAdded signals emitted for each key
    removedCount,        \* deviceRemoved signals emitted for each key
    steadyNow,           \* std::chrono::steady_clock::now(), in milliseconds
    steadySteps,         \* number of advances of the steady clock so far
    powerMgr,            \* PowerManager::Private, with the values it holds
    bwMonitor,           \* BandwidthMonitor::Private, with the values it holds
    lastMon,             \* record of the last call on one of the two monitors
    analyzer,            \* ProtocolAnalyzer::Private
    lastAna,             \* record of the last ProtocolAnalyzer call
    authCalls,           \* calls made on the DeviceAuthorizer in SpecHistory
    secCalls,            \* calls made on the SecurityManager in SpecEvents
    lastQuery,           \* the last getSecurityEvents call and what it returned
    secMutex,            \* SecurityManager::Private::stateMutex
    lastCallback,        \* the last signal or callback that ran a subscriber
    running,             \* BenchmarkTool::Private::running
    workers,             \* the threads startBenchmark created, in order
    lastBench            \* record of the last BenchmarkTool call

regVars == <<phase, attached, plugs, devices, objects, powerTimers, bwTimers,
             powerStats, bwStats, devicesMutex, thread, addedCount,
             removedCount>>

\* the monitors and the analyzer taken on their own
telVars == <<steadyNow, steadySteps, powerMgr, bwMonitor, lastMon, analyzer,
             lastAna>>

\* what only the specifications of single classes use
logVars == <<secCalls, lastQuery>>

cbVars == <<secMutex, lastCallback>>

benchVars == <<running, workers, lastBench>>

extVars == <<authCalls, logVars, cbVars, benchVars>>

envVars == <<now, clockSteps, dev, regVars, telVars, extVars>>

Signal(name, d, text) == [signal |-> name, dev |-> d, text |-> text]

authVars == <<policy, deviceStates, trustedCertificates, customMethods,
              authMutex, lastAuth>>

secVars == <<rules, events, authorizedDevices, currentLevel, lastSec>>

(***************************************************************************)
(* Bounds of the model                                                     *)
(***************************************************************************)
MaxClockSteps == 2
MaxHistory == 1
MaxCerts == 1

(***************************************************************************)
(* Program constants                                                       *)
(***************************************************************************)
UnitsPerHour == 2
AuthExpiryHours == 24
maxHistorySize == 100
DefaultAuthTimeout == 30
HighAuthTimeout == 15

\* enum class DeviceClass
ClassUnspecified == 0
ClassCDC == 2
ClassHID == 3
ClassPrinter == 7
ClassMassStorage == 8
ClassHub == 9
ClassVideo == 14
ClassAudioVideo == 16
ClassDiagnostic == 220
ClassWireless == 224
ClassVendorSpecific == 255

\* enum libusb_speed
LIBUSB_SPEED_FULL == 2
LIBUSB_SPEED_HIGH == 3

Epoch == 0

Devs == {"devA", "devB"}

(***************************************************************************)
(* DeviceAuthorizer                                                        *)
(***************************************************************************)
AuthorizationPolicy(auto, confirm, cert, sys, timeout) ==
    [autoAuthorizeKnownDevices |-> auto,
     requireUserConfirmation   |-> confirm,
     checkDeviceCertificates   |-> cert,
     enforceSystemPolicies     |-> sys,
     authorizationTimeout      |-> timeout]

\* AuthorizationPolicy's default member initialisers
DefaultPolicy == AuthorizationPolicy(TRUE, FALSE, FALSE, TRUE, DefaultAuthTimeout)

\* the policy the DeviceAuthorizer constructor sets
ConstructorPolicy == AuthorizationPolicy(TRUE, TRUE, FALSE, TRUE, DefaultAuthTimeout)

DeviceAuthState ==
    [isAuthorized |-> FALSE, lastAuthAttempt |-> Epoch, history |-> <<>>]

\* lines 502-511; the timestamp of a result is left out of the model
createResult(authorized, reason, method) ==
    [authorized |-> authorized, reason |-> reason, method |-> method]

RECURSIVE pruneHistoryTo(_, _)
pruneHistoryToOldest(h, max) ==
    IF Len(h) > max THEN SubSeq(h, 1, max) ELSE h

pruneHistoryTo(h, max) ==
    IF Len(h) > max THEN pruneHistoryTo(Tail(h), max) ELSE h

pruneHistory(state) ==
    [state EXCEPT !.history = pruneHistoryTo(state.history, maxHistorySize)]

ElapsedHours(from, to) == (to - from) \div UnitsPerHour

isAuthorizationExpiredLate(state, t) ==
    IF ~state.isAuthorized THEN TRUE
    ELSE ElapsedHours(state.lastAuthAttempt, t) > AuthExpiryHours

isAuthorizationExpired(state, t) ==
    IF ~state.isAuthorized THEN TRUE
    ELSE ElapsedHours(state.lastAuthAttempt, t) >= AuthExpiryHours

isKnownDevice(d) ==
    dev[d].deviceClass \in {ClassHID, ClassHub, ClassPrinter, ClassMassStorage}

checkSystemPoliciesLax(d) ==
    ~ (dev[d].speed > LIBUSB_SPEED_FULL
       /\ dev[d].deviceClass \in {ClassMassStorage, ClassVideo, ClassAudioVideo})

checkSystemPolicies(d) ==
    IF dev[d].speed > LIBUSB_SPEED_FULL
       /\ dev[d].deviceClass \in {ClassMassStorage, ClassVideo, ClassAudioVideo}
    THEN FALSE
    ELSE dev[d].deviceClass \notin
             {ClassVendorSpecific, ClassDiagnostic, ClassWireless}

\* the value validateDeviceCertificate returns once it owns stateMutex
validateDeviceCertificate(d) ==
    ~ (policy.checkDeviceCertificates /\ trustedCertificates = <<>>)

deviceKey(d) == ToString(dev[d].vendorId) \o ":" \o ToString(dev[d].productId)

\* promptUserForAuthorization: answer is what the user does with the message
\* box ("yes", "no", or "none" when the box is left alone).  Without a
\* positive timeout no timer rejects the box, and box.exec() never returns
\* while the user gives no answer (hang).
promptUserForAuthorization(d, answer) ==
    [hang   |-> answer = "none" /\ ~ (policy.authorizationTimeout > 0),
     result |-> IF answer = "yes"
                THEN createResult(TRUE, "User authorized device", "UserPrompt")
                ELSE createResult(FALSE, "User denied authorization",
                                  "UserPrompt")]

Returned(state, result, steps) ==
    [returned |-> TRUE, state |-> state, result |-> result, steps |-> steps,
     answer |-> ""]

Hung(state, steps) ==
    [returned |-> FALSE, state |-> state,
     result |-> createResult(FALSE, "", "none"), steps |-> steps,
     answer |-> ""]

\* the outcome of a call that showed the message box, with what the user did
Prompted(out, answer) == [out EXCEPT !.answer = answer]

Recorded(state, result, authorized) ==
    pruneHistory([state EXCEPT !.history = Append(@, result),
                               !.isAuthorized = authorized])

\* lines 645-665: the user prompt and the default grant
authorizeTail(d, state, steps, answer) ==
    IF policy.requireUserConfirmation
    THEN LET p == promptUserForAuthorization(d, answer) IN
         IF p.hang THEN Prompted(Hung(state, Append(steps, "prompt")), answer)
         ELSE Prompted(Returned(Recorded(state, p.result, p.result.authorized),
                                p.result, Append(steps, "prompt")),
                       answer)
    ELSE LET r == createResult(TRUE, "All checks passed", "Automatic") IN
         Returned(Recorded(state, r, TRUE), r, steps)

\* lines 630-643: the custom authorization method
authorizeCustomNotTerminal(d, state, steps, answer) ==
    IF deviceKey(d) \in DOMAIN customMethods
    THEN authorizeTail(d, state, Append(steps, "custom"), answer)
    ELSE authorizeTail(d, state, steps, answer)

authorizeCustom(d, state, steps, answer) ==
    IF deviceKey(d) \in DOMAIN customMethods
    THEN LET r == createResult(customMethods[deviceKey(d)] = "grant",
                               "Custom method", "Custom") IN
         IF ~r.authorized
         THEN Returned(Recorded(state, r, FALSE), r, Append(steps, "custom"))
         ELSE authorizeTail(d, state, Append(steps, "custom"), answer)
    ELSE authorizeTail(d, state, steps, answer)

\* lines 619-628: the certificate check.  validateDeviceCertificate locks
\* stateMutex, which authorizeDevice already owns: relock is the outcome of
\* that second lock ("hang": the thread blocks forever, "proceed": the lock
\* is granted).
authorizeCertificate(d, state, steps, answer, relock) ==
    IF policy.checkDeviceCertificates
    THEN IF relock = "hang" THEN Hung(state, Append(steps, "certificate"))
         ELSE IF ~validateDeviceCertificate(d)
              THEN LET r == createResult(FALSE, "Certificate validation failed",
                                         "Certificate") IN
                   Returned(Recorded(state, r, FALSE), r,
                            Append(steps, "certificate"))
              ELSE authorizeCustom(d, state, Append(steps, "certificate"), answer)
    ELSE authorizeCustom(d, state, steps, answer)

\* lines 608-617: the system policy check
authorizeSystemPolicy(d, state, steps, answer, relock) ==
    IF policy.enforceSystemPolicies
    THEN IF ~checkSystemPolicies(d)
         THEN LET r == createResult(FALSE, "System policy violation",
                                    "SystemPolicy") IN
              Returned(Recorded(state, r, FALSE), r,
                       Append(steps, "systemPolicy"))
         ELSE authorizeCertificate(d, state, Append(steps, "systemPolicy"),
                                   answer, relock)
    ELSE authorizeCertificate(d, state, steps, answer, relock)

\* lines 580-606: automatic authorization of known device types
authorizeKnownNoShortCircuit(d, state, steps, answer, relock) ==
    authorizeSystemPolicy(d, state, Append(steps, "knownType"), answer, relock)

authorizeKnown(d, state, steps, answer, relock) ==
    IF policy.autoAuthorizeKnownDevices
    THEN IF isKnownDevice(d)
         THEN LET r == createResult(TRUE, "Known device type", "Automatic") IN
              Returned(Recorded(state, r, TRUE), r, Append(steps, "knownType"))
         ELSE authorizeSystemPolicy(d, state, Append(steps, "knownType"),
                                    answer, relock)
    ELSE authorizeSystemPolicy(d, state, steps, answer, relock)

\* lines 566-576: the cached grant and the reset of the state
authorizeOutcomeKeepsFlag(d, answer, relock) ==
    LET state == deviceStates[d] IN
    IF state.isAuthorized /\ ~isAuthorizationExpired(state, now)
    THEN Returned(state,
                  createResult(TRUE, "Already authorized", "Automatic"),
                  <<"cached">>)
    ELSE LET out == authorizeKnown(d, [state EXCEPT !.lastAuthAttempt = now],
                                   <<"cached">>, answer, relock)
         IN [out EXCEPT !.state.isAuthorized =
                            state.isAuthorized \/ out.state.isAuthorized]

authorizeOutcome(d, answer, relock) ==
    LET state == deviceStates[d] IN
    IF state.isAuthorized /\ ~isAuthorizationExpired(state, now)
    THEN Returned(state,
                  createResult(TRUE, "Already authorized", "Automatic"),
                  <<"cached">>)
    ELSE authorizeKnown(d,
                        [state EXCEPT !.isAuthorized = FALSE,
                                      !.lastAuthAttempt = now],
                        <<"cached">>, answer, relock)

\* what the last operation on the authorizer was, when it was an
\* authorizeDevice call: the device, its state before the call, whether the
\* call returned, the result and the checks that ran, in order
CallRecord(d, out) ==
    [dev |-> d, pre |-> deviceStates[d], returned |-> out.returned,
     result |-> out.result, steps |-> out.steps, answer |-> out.answer]

NoCall ==
    [dev |-> "none", pre |-> DeviceAuthState, returned |-> TRUE,
     result |-> [authorized |-> FALSE, reason |-> "", method |-> "none"],
     steps |-> <<>>, answer |-> ""]

\* the effect of DeviceAuthorizer::authorizeDevice(device) on the engine state
authorizerAuthorize(d, out) ==
    /\ deviceStates' = [deviceStates EXCEPT ![d] = out.state]
    /\ authMutex' = IF out.returned THEN "free" ELSE "stuck"
    /\ lastAuth' = CallRecord(d, out)
    /\ UNCHANGED <<policy, trustedCertificates, customMethods>>

authorizeDevice(d, answer, relock) ==
    /\ authMutex = "free"
    /\ Len(authorizeOutcome(d, answer, relock).state.history) <= MaxHistory
    /\ authorizerAuthorize(d, authorizeOutcome(d, answer, relock))
    /\ signals' = <<>>
    /\ UNCHANGED <<envVars, secVars>>


\* lines 668-685
revokeOutcomeAlways(d) ==
    LET state == deviceStates[d] IN
    [state   |-> Recorded([state EXCEPT !.lastAuthAttempt = now],
                          createResult(FALSE, "Authorization revoked",
                                       "Automatic"),
                          FALSE),
     signals |-> <<Signal("deviceAuthorizationRevoked", d, "")>>]

revokeOutcome(d) ==
    LET state == deviceStates[d] IN
    IF state.isAuthorized
    THEN [state   |-> Recorded([state EXCEPT !.lastAuthAttempt = now],
                               createResult(FALSE, "Authorization revoked",
                                            "Automatic"),
                               FALSE),
          signals |-> <<Signal("deviceAuthorizationRevoked", d, "")>>]
    ELSE [state |-> state, signals |-> <<>>]

revokeAuthorization(d) ==
    /\ authMutex = "free"
    /\ Len(revokeOutcome(d).state.history) <= MaxHistory
    /\ deviceStates' = [deviceStates EXCEPT ![d] = revokeOutcome(d).state]
    /\ signals' = revokeOutcome(d).signals
    /\ lastAuth' = NoCall
    /\ UNCHANGED <<policy, trustedCertificates, customMethods, authMutex>>
    /\ UNCHANGED <<envVars, secVars>>

\* lines 687-696
isAuthorized(d) ==
    deviceStates[d].isAuthorized
    /\ ~isAuthorizationExpired(deviceStates[d], now)

\* lines 698-702
setAuthorizationPolicy(p) ==
    /\ authMutex = "free"
    /\ policy' = p
    /\ signals' = <<Signal("policyChanged", "none", "")>>
    /\ lastAuth' = NoCall
    /\ UNCHANGED <<deviceStates, trustedCertificates, customMethods, authMutex>>
    /\ UNCHANGED <<envVars, secVars>>

\* lines 709-717: valid is the verdict of Private::validateCertificate on the
\* file at certPath
addTrustedCertificate(certPath, valid) ==
    /\ authMutex = "free"
    /\ Len(trustedCertificates) < MaxCerts
    /\ trustedCertificates' = IF valid THEN Append(trustedCertificates, certPath)
                              ELSE trustedCertificates
    /\ signals' = <<>>
    /\ lastAuth' = NoCall
    /\ UNCHANGED <<policy, deviceStates, customMethods, authMutex>>
    /\ UNCHANGED <<envVars, secVars>>

\* lines 719-725
removeTrustedCertificate(certId) ==
    /\ authMutex = "free"
    /\ trustedCertificates' = SelectSeq(trustedCertificates,
                                        LAMBDA c : c # certId)
    /\ signals' = <<>>
    /\ lastAuth' = NoCall
    /\ UNCHANGED <<policy, deviceStates, customMethods, authMutex>>
    /\ UNCHANGED <<envVars, secVars>>

\* lines 732-737: method is the verdict the registered function returns
registerCustomAuthorizationMethod(name, method) ==
    /\ authMutex = "free"
    /\ customMethods' = (name :> method) @@ customMethods
    /\ signals' = <<>>
    /\ lastAuth' = NoCall
    /\ UNCHANGED <<policy, deviceStates, trustedCertificates, authMutex>>
    /\ UNCHANGED <<envVars, secVars>>

\* lines 752-758
clearAuthorizationHistory(d) ==
    /\ authMutex = "free"
    /\ deviceStates' = [deviceStates EXCEPT ![d].history = <<>>]
    /\ signals' = <<>>
    /\ lastAuth' = NoCall
    /\ UNCHANGED <<policy, trustedCertificates, customMethods, authMutex>>
    /\ UNCHANGED <<envVars, secVars>>

(***************************************************************************)
(* The system clock                                                        *)
(***************************************************************************)
\* half an hour, and half an hour less than a day
ClockDeltas == {1, AuthExpiryHours * UnitsPerHour - 1}


(***************************************************************************)
(* SecurityManager                                                         *)
(***************************************************************************)
maxEventHistory == 10000
MaxInterfaces == 32
MaxAltSettings == 16
MaxPacketSize == 16384
LIBUSB_CLASS_VENDOR_SPEC == 255
LIBUSB_TRANSFER_TYPE_MASK == 3

\* the interface classes validateDeviceProtocol accepts by name:
\* PER_INTERFACE, AUDIO, COMM, HID, PRINTER, MASS_STORAGE, HUB, DATA, VIDEO
CommonInterfaceClasses == {0, 1, 2, 3, 7, 8, 9, 10, 14}

SecurityLevels == {"Low", "Medium", "High", "Custom"}

HexDigit == <<"0", "1", "2", "3", "4", "5", "6", "7",
              "8", "9", "A", "B", "C", "D", "E", "F">>

\* operator<< of an integer under std::hex, std::uppercase, setw(width) and
\* setfill('0')
RECURSIVE HexUpper(_, _)
HexUpper(n, width) ==
    IF n = 0 /\ width <= 0 THEN ""
    ELSE HexUpper(n \div 16, width - 1) \o HexDigit[(n % 16) + 1]

\* lines 87-92: the identifier an interface class is compared under
interfaceId(class) == "0x" \o HexUpper(class, 2)

\* lines 456-461: the device identifier of a security event
eventDeviceId(d) ==
    HexUpper(dev[d].vendorId, 4) \o ":" \o HexUpper(dev[d].productId, 4)

Range(seq) == {seq[i] : i \in 1..Len(seq)}

\* SecurityRule{}
DefaultSecurityRule ==
    [vendorId |-> 0, productId |-> 0, isWhitelisted |-> FALSE,
     requireAuthorization |-> FALSE, securityLevel |-> "Low",
     allowedInterfaces |-> <<>>, expiryDate |-> Epoch]

matchesRule(rule, d) ==
    rule.vendorId = dev[d].vendorId /\ rule.productId = dev[d].productId

findMatchingRule(d) ==
    LET idx == {i \in 1..Len(rules) : matchesRule(rules[i], d)} IN
    IF idx = {} THEN DefaultSecurityRule
    ELSE rules[CHOOSE i \in idx : \A j \in idx : i <= j]

validateDeviceInterfacesAny(d, rule) ==
    IF rule.allowedInterfaces = <<>> THEN TRUE
    ELSE IF ~dev[d].config.available THEN FALSE
    ELSE \E i \in 1..dev[d].config.bNumInterfaces :
           \E j \in 1..dev[d].config.interface[i].num_altsetting :
             interfaceId(dev[d].config.interface[i].altsetting[j].bInterfaceClass)
                 \in Range(rule.allowedInterfaces)

validateDeviceInterfaces(d, rule) ==
    IF rule.allowedInterfaces = <<>> THEN TRUE
    ELSE IF ~dev[d].config.available THEN FALSE
    ELSE \A i \in 1..dev[d].config.bNumInterfaces :
           \A j \in 1..dev[d].config.interface[i].num_altsetting :
             interfaceId(dev[d].config.interface[i].altsetting[j].bInterfaceClass)
                 \in Range(rule.allowedInterfaces)

RECURSIVE pruneEventsTo(_, _)
pruneEventsToOldest(evs, max) ==
    IF Len(evs) > max THEN SubSeq(evs, 1, max) ELSE evs

pruneEventsTo(evs, max) ==
    IF Len(evs) > max THEN pruneEventsTo(Tail(evs), max) ELSE evs

\* lines 447-475: the log after logging event about device d
logSecurityEvent(evs, event, d, description) ==
    pruneEventsTo(Append(evs, [event |-> event, timestamp |-> now,
                               deviceId |-> eventDeviceId(d),
                               description |-> description,
                               securityLevel |-> currentLevel]),
                  maxEventHistory)

Logged(event, description) == [event |-> event, description |-> description]

RECURSIVE logAll(_, _, _)
logAll(evs, d, logged) ==
    IF logged = <<>> THEN evs
    ELSE logAll(logSecurityEvent(evs, Head(logged).event, d,
                                 Head(logged).description),
                d, Tail(logged))

ruleExpired(rule) == rule.expiryDate # Epoch /\ now > rule.expiryDate

Denied(rule, event, description) ==
    [allowed |-> FALSE, cacheHit |-> FALSE, rule |-> rule,
     logged |-> <<Logged(event, description)>>]

\* lines 253-294
isDeviceAllowedNoExpiry(d) ==
    IF deviceKey(d) \in DOMAIN authorizedDevices
    THEN [allowed |-> authorizedDevices[deviceKey(d)], cacheHit |-> TRUE,
          rule |-> DefaultSecurityRule, logged |-> <<>>]
    ELSE LET rule == findMatchingRule(d) IN
         IF ~rule.isWhitelisted
         THEN Denied(rule, "UnauthorizedAccess", "Device is not whitelisted")
         ELSE IF ~validateDeviceInterfaces(d, rule)
         THEN Denied(rule, "PolicyViolation",
                     "Device uses unauthorized interfaces")
         ELSE [allowed |-> TRUE, cacheHit |-> FALSE, rule |-> rule,
               logged |-> <<>>]

isDeviceAllowedOutcome(d) ==
    IF deviceKey(d) \in DOMAIN authorizedDevices
    THEN [allowed |-> authorizedDevices[deviceKey(d)], cacheHit |-> TRUE,
          rule |-> DefaultSecurityRule, logged |-> <<>>]
    ELSE LET rule == findMatchingRule(d) IN
         IF ~rule.isWhitelisted
         THEN Denied(rule, "UnauthorizedAccess", "Device is not whitelisted")
         ELSE IF ~validateDeviceInterfaces(d, rule)
         THEN Denied(rule, "PolicyViolation",
                     "Device uses unauthorized interfaces")
         ELSE IF ruleExpired(rule)
         THEN Denied(rule, "PolicyViolation", "Security rule has expired")
         ELSE [allowed |-> TRUE, cacheHit |-> FALSE, rule |-> rule,
               logged |-> <<>>]

\* lines 535-560: the events logged for the endpoints k.. of one setting
endpointLogs(ep) ==
    (IF (ep.bmAttributes % (LIBUSB_TRANSFER_TYPE_MASK + 1)) \in {0, 1, 2, 3}
     THEN <<>>
     ELSE <<Logged("ProtocolViolation", "Invalid endpoint transfer type")>>)
    \o
    (IF ep.wMaxPacketSize > MaxPacketSize
     THEN <<Logged("ProtocolViolation", "Suspicious max packet size")>>
     ELSE <<>>)

RECURSIVE endpointsLogs(_, _)
endpointsLogs(eps, k) ==
    IF k > Len(eps) THEN <<>>
    ELSE IF endpointLogs(eps[k]) # <<>> THEN endpointLogs(eps[k])
    ELSE endpointsLogs(eps, k + 1)

\* lines 508-561: the events logged for the alternate settings j.. of one
\* interface
RECURSIVE settingsLogs(_, _)
settingsLogs(iface, j) ==
    IF j > iface.num_altsetting THEN <<>>
    ELSE LET setting == iface.altsetting[j] IN
         IF setting.bInterfaceClass \notin CommonInterfaceClasses
            /\ setting.bInterfaceClass < LIBUSB_CLASS_VENDOR_SPEC
         THEN <<Logged("ProtocolViolation", "Unknown interface class detected")>>
         ELSE IF endpointsLogs(setting.endpoint, 1) # <<>>
         THEN endpointsLogs(setting.endpoint, 1)
         ELSE settingsLogs(iface, j + 1)

\* lines 496-562: the events logged for the interfaces i.. of a configuration
RECURSIVE interfacesLogs(_, _)
interfacesLogs(config, i) ==
    IF i > config.bNumInterfaces THEN <<>>
    ELSE IF config.interface[i].num_altsetting > MaxAltSettings
    THEN <<Logged("ProtocolViolation",
                  "Suspicious number of alternate settings")>>
    ELSE IF settingsLogs(config.interface[i], 1) # <<>>
    THEN settingsLogs(config.interface[i], 1)
    ELSE interfacesLogs(config, i + 1)

\* lines 477-566
validateDeviceProtocolOutcomeAnyCount(d) ==
    IF ~dev[d].isOpen \/ ~dev[d].config.available
    THEN [valid |-> FALSE, logged |-> <<>>]
    ELSE LET logged == interfacesLogs(dev[d].config, 1)
         IN [valid |-> logged = <<>>, logged |-> logged]

validateDeviceProtocolOutcome(d) ==
    IF ~dev[d].isOpen \/ ~dev[d].config.available
    THEN [valid |-> FALSE, logged |-> <<>>]
    ELSE LET logged ==
                 IF dev[d].config.bNumInterfaces > MaxInterfaces
                 THEN <<Logged("ProtocolViolation",
                               "Suspicious number of interfaces")>>
                 ELSE interfacesLogs(dev[d].config, 1)
         IN [valid |-> logged = <<>>, logged |-> logged]


Stage(name, passed) == [stage |-> name, passed |-> passed]

SecOutcome(returned, result, stages, logged, blocked, cacheSet, engine, allowed) ==
    [returned |-> returned, result |-> result, stages |-> stages,
     logged |-> logged, blocked |-> blocked, cacheSet |-> cacheSet,
     engine |-> engine, allowed |-> allowed]

\* lines 296-328: SecurityManager::authorizeDevice.  engine holds the outcome
\* of DeviceAuthorizer::authorizeDevice when it was invoked.
securityAuthorizeOutcomeNoProtocol(d, answer, relock) ==
    LET a == isDeviceAllowedOutcome(d) IN
    IF ~a.allowed
    THEN SecOutcome(TRUE, FALSE, <<Stage("isDeviceAllowed", FALSE)>>, a.logged,
                    <<"Device is not allowed by security rules">>, FALSE,
                    <<>>, a)
    ELSE
    LET stages == <<Stage("isDeviceAllowed", TRUE),
                    Stage("validateDeviceProtocol", TRUE)>> IN
    IF authMutex = "stuck"
    THEN SecOutcome(FALSE, FALSE, Append(stages, Stage("authorizer", FALSE)),
                    <<>>, <<>>, FALSE, <<>>, a)
    ELSE
    LET out == authorizeOutcome(d, answer, relock) IN
    IF ~out.returned
    THEN SecOutcome(FALSE, FALSE, Append(stages, Stage("authorizer", FALSE)),
                    <<>>, <<>>, FALSE, <<out>>, a)
    ELSE IF ~out.result.authorized
    THEN SecOutcome(TRUE, FALSE, Append(stages, Stage("authorizer", FALSE)),
                    <<>>, <<out.result.reason>>, FALSE, <<out>>, a)
    ELSE SecOutcome(TRUE, TRUE, Append(stages, Stage("authorizer", TRUE)),
                    <<>>, <<>>, TRUE, <<out>>, a)

securityAuthorizeOutcome(d, answer, relock) ==
    LET a == isDeviceAllowedOutcome(d) IN
    IF ~a.allowed
    THEN SecOutcome(TRUE, FALSE, <<Stage("isDeviceAllowed", FALSE)>>, a.logged,
                    <<"Device is not allowed by security rules">>, FALSE,
                    <<>>, a)
    ELSE
    LET v == validateDeviceProtocolOutcome(d) IN
    IF ~v.valid
    THEN SecOutcome(TRUE, FALSE,
                    <<Stage("isDeviceAllowed", TRUE),
                      Stage("validateDeviceProtocol", FALSE)>>,
                    a.logged \o v.logged,
                    <<"Device failed protocol validation">>, FALSE, <<>>, a)
    ELSE
    LET stages == <<Stage("isDeviceAllowed", TRUE),
                    Stage("validateDeviceProtocol", TRUE)>> IN
    IF authMutex = "stuck"
    THEN SecOutcome(FALSE, FALSE, Append(stages, Stage("authorizer", FALSE)),
                    <<>>, <<>>, FALSE, <<>>, a)
    ELSE
    LET out == authorizeOutcome(d, answer, relock) IN
    IF ~out.returned
    THEN SecOutcome(FALSE, FALSE, Append(stages, Stage("authorizer", FALSE)),
                    <<>>, <<>>, FALSE, <<out>>, a)
    ELSE IF ~out.result.authorized
    THEN SecOutcome(TRUE, FALSE, Append(stages, Stage("authorizer", FALSE)),
                    <<>>, <<out.result.reason>>, FALSE, <<out>>, a)
    ELSE SecOutcome(TRUE, TRUE, Append(stages, Stage("authorizer", TRUE)),
                    <<>>, <<>>, TRUE, <<out>>, a)

\* what the last operation on the security manager was, when it was an
\* isDeviceAllowed or authorizeDevice call
SecCall(op, d, o) ==
    [op |-> op, dev |-> d, returned |-> o.returned, result |-> o.result,
     stages |-> o.stages, logged |-> o.logged, blocked |-> o.blocked,
     cacheHit |-> o.allowed.cacheHit, cacheBefore |-> authorizedDevices]

EmptyMap == [k \in {} |-> TRUE]

NoSecCall ==
    [op |-> "none", dev |-> "none", returned |-> TRUE, result |-> FALSE,
     stages |-> <<>>, logged |-> <<>>, blocked |-> <<>>, cacheHit |-> FALSE,
     cacheBefore |-> EmptyMap]

EventSignals(d, logged) ==
    [i \in 1..Len(logged) |->
        Signal("securityEventOccurred", d, logged[i].event)]

BlockedSignals(d, blocked) ==
    [i \in 1..Len(blocked) |-> Signal("deviceBlocked", d, blocked[i])]

MaxEvents == 1

authUntouched ==
    /\ lastAuth' = NoCall
    /\ UNCHANGED <<policy, deviceStates, trustedCertificates, customMethods,
                   authMutex>>

SecurityManager_authorizeDevice(d, answer, relock) ==
    LET o == securityAuthorizeOutcome(d, answer, relock) IN
    /\ Len(logAll(events, d, o.logged)) <= MaxEvents
    /\ o.engine # <<>> => Len(o.engine[1].state.history) <= MaxHistory
    /\ events' = logAll(events, d, o.logged)
    /\ authorizedDevices' = IF o.cacheSet
                            THEN (deviceKey(d) :> TRUE) @@ authorizedDevices
                            ELSE authorizedDevices
    /\ signals' = EventSignals(d, o.logged) \o BlockedSignals(d, o.blocked)
    /\ lastSec' = SecCall("authorizeDevice", d, o)
    /\ IF o.engine = <<>> THEN authUntouched
       ELSE authorizerAuthorize(d, o.engine[1])
    /\ UNCHANGED <<rules, currentLevel, envVars>>

\* lines 477-566 as a call of their own
validateDeviceProtocol(d) ==
    LET v == validateDeviceProtocolOutcome(d) IN
    /\ Len(logAll(events, d, v.logged)) <= MaxEvents
    /\ events' = logAll(events, d, v.logged)
    /\ signals' = EventSignals(d, v.logged)
    /\ lastSec' = SecCall("validateDeviceProtocol", d,
                          SecOutcome(TRUE, v.valid,
                                     <<Stage("validateDeviceProtocol", v.valid)>>,
                                     v.logged, <<>>, FALSE, <<>>,
                                     [cacheHit |-> FALSE]))
    /\ authUntouched
    /\ UNCHANGED <<rules, authorizedDevices, currentLevel, envVars>>

\* lines 253-294 as a public call
SecurityManager_isDeviceAllowed(d) ==
    LET a == isDeviceAllowedOutcome(d) IN
    /\ Len(logAll(events, d, a.logged)) <= MaxEvents
    /\ events' = logAll(events, d, a.logged)
    /\ signals' = EventSignals(d, a.logged)
    /\ lastSec' = SecCall("isDeviceAllowed", d,
                          SecOutcome(TRUE, a.allowed,
                                     <<Stage("isDeviceAllowed", a.allowed)>>,
                                     a.logged, <<>>, FALSE, <<>>, a))
    /\ authUntouched
    /\ UNCHANGED <<rules, authorizedDevices, currentLevel, envVars>>

RemoveKey(map, key) == [k \in (DOMAIN map) \ {key} |-> map[k]]

RevokedLog(emitted) ==
    IF emitted = <<>> THEN <<>>
    ELSE <<Logged("AuthorizationDenied", "Device authorization revoked")>>

\* lines 330-343, with the slot the constructor connects to
\* deviceAuthorizationRevoked (lines 238-242); the call blocks in the
\* authorizer when its mutex is stuck
SecurityManager_revokeAuthorization(d) ==
    /\ Len(revokeOutcome(d).state.history) <= MaxHistory
    /\ Len(logAll(events, d, RevokedLog(revokeOutcome(d).signals))) <= MaxEvents
    /\ IF authMutex = "stuck"
       THEN /\ signals' = <<>>
            /\ UNCHANGED <<deviceStates, events, authorizedDevices>>
       ELSE /\ deviceStates' = [deviceStates EXCEPT ![d] = revokeOutcome(d).state]
            /\ events' = logAll(events, d, RevokedLog(revokeOutcome(d).signals))
            /\ signals' = revokeOutcome(d).signals
                           \o EventSignals(d, RevokedLog(revokeOutcome(d).signals))
            /\ authorizedDevices' = RemoveKey(authorizedDevices, deviceKey(d))
    /\ lastAuth' = NoCall
    /\ lastSec' = NoSecCall
    /\ UNCHANGED <<policy, trustedCertificates, customMethods, authMutex>>
    /\ UNCHANGED <<rules, currentLevel, envVars>>

sameDevice(rule, vendorId, productId) ==
    rule.vendorId = vendorId /\ rule.productId = productId

ConfigSignal == Signal("configurationChanged", "none", "")

\* lines 345-360
addSecurityRule(rule) ==
    /\ rules' = Append(SelectSeq(rules, LAMBDA e :
                           ~sameDevice(e, rule.vendorId, rule.productId)),
                       rule)
    /\ signals' = <<ConfigSignal>>
    /\ lastSec' = NoSecCall
    /\ authUntouched
    /\ UNCHANGED <<events, authorizedDevices, currentLevel, envVars>>

\* lines 362-374
removeSecurityRule(vendorId, productId) ==
    LET kept == SelectSeq(rules, LAMBDA e : ~sameDevice(e, vendorId, productId))
    IN
    /\ rules' = kept
    /\ signals' = IF kept # rules THEN <<ConfigSignal>> ELSE <<>>
    /\ lastSec' = NoSecCall
    /\ authUntouched
    /\ UNCHANGED <<events, authorizedDevices, currentLevel, envVars>>

\* lines 381-385
clearSecurityRules ==
    /\ rules' = <<>>
    /\ signals' = <<ConfigSignal>>
    /\ lastSec' = NoSecCall
    /\ authUntouched
    /\ UNCHANGED <<events, authorizedDevices, currentLevel, envVars>>

\* lines 37-70: the policy enforceSecurityLevel hands to the authorizer
levelPolicyDefaultTimeout(level) ==
    CASE level = "Low" ->
           AuthorizationPolicy(TRUE, FALSE, FALSE, FALSE, DefaultAuthTimeout)
      [] level = "Medium" ->
           AuthorizationPolicy(TRUE, TRUE, FALSE, TRUE, DefaultAuthTimeout)
      [] level = "High" ->
           AuthorizationPolicy(FALSE, TRUE, TRUE, TRUE, DefaultAuthTimeout)

levelPolicy(level) ==
    CASE level = "Low" ->
           AuthorizationPolicy(TRUE, FALSE, FALSE, FALSE, DefaultAuthTimeout)
      [] level = "Medium" ->
           AuthorizationPolicy(TRUE, TRUE, FALSE, TRUE, DefaultAuthTimeout)
      [] level = "High" ->
           AuthorizationPolicy(FALSE, TRUE, TRUE, TRUE, HighAuthTimeout)

LevelSignal(level) == Signal("securityLevelChanged", "none", level)

PolicySignal == Signal("policyChanged", "none", "")

\* lines 387-396 with enforceSecurityLevel: the level, the policy and the
\* signals after setSecurityLevel(level) called with level cur and policy pol;
\* hung when setAuthorizationPolicy blocks on the authorizer's mutex
setSecurityLevelOutcome(cur, pol, level) ==
    IF cur = level
    THEN [level |-> cur, policy |-> pol, hung |-> FALSE, signals |-> <<>>,
          policyChanged |-> FALSE]
    ELSE IF level = "Custom"
    THEN [level |-> level, policy |-> pol, hung |-> FALSE,
          signals |-> <<LevelSignal(level)>>, policyChanged |-> FALSE]
    ELSE IF authMutex = "stuck"
    THEN [level |-> level, policy |-> pol, hung |-> TRUE, signals |-> <<>>,
          policyChanged |-> FALSE]
    ELSE [level |-> level, policy |-> levelPolicy(level), hung |-> FALSE,
          signals |-> <<PolicySignal, LevelSignal(level)>>,
          policyChanged |-> TRUE]

setSecurityLevel(level) ==
    LET o == setSecurityLevelOutcome(currentLevel, policy, level) IN
    /\ currentLevel' = o.level
    /\ policy' = o.policy
    /\ signals' = o.signals
    /\ lastAuth' = NoCall
    /\ lastSec' = NoSecCall
    /\ UNCHANGED <<deviceStates, trustedCertificates, customMethods, authMutex>>
    /\ UNCHANGED <<rules, events, authorizedDevices, envVars>>

\* lines 427-430
clearSecurityEvents ==
    /\ events' = <<>>
    /\ signals' = <<>>
    /\ lastSec' = NoSecCall
    /\ authUntouched
    /\ UNCHANGED <<rules, authorizedDevices, currentLevel, envVars>>

\* lines 168-222 and 432-439: config is the parsed content of the file;
\* unreadable files leave everything as it is
loadSecurityConfig(config) ==
    LET o == IF config.readable /\ config.hasLevel
             THEN setSecurityLevelOutcome(currentLevel, policy, config.level)
             ELSE setSecurityLevelOutcome(currentLevel, policy, currentLevel)
    IN
    /\ currentLevel' = o.level
    /\ policy' = o.policy
    /\ rules' = IF config.readable /\ ~o.hung THEN config.rules ELSE rules
    /\ signals' = IF config.readable /\ ~o.hung
                     THEN o.signals \o <<ConfigSignal>> ELSE <<>>
    /\ lastAuth' = NoCall
    /\ lastSec' = NoSecCall
    /\ UNCHANGED <<deviceStates, trustedCertificates, customMethods, authMutex>>
    /\ UNCHANGED <<events, authorizedDevices, envVars>>

AdvanceClock(delta) ==
    /\ clockSteps < MaxClockSteps
    /\ now' = now + delta
    /\ clockSteps' = clockSteps + 1
    /\ lastAuth' = NoCall
    /\ lastSec' = NoSecCall
    /\ signals' = <<>>
    /\ UNCHANGED <<dev, regVars, telVars, extVars, policy, deviceStates,
                   trustedCertificates, customMethods, authMutex>>
    /\ UNCHANGED <<rules, events, authorizedDevices, currentLevel>>

(***************************************************************************)
(* Devices                                                                 *)
(***************************************************************************)
Endpoint(attributes, size) ==
    [bmAttributes |-> attributes, wMaxPacketSize |-> size]

Setting(class) ==
    [bInterfaceClass |-> class, endpoint |-> <<Endpoint(2, 512)>>]

Interface(class) == [num_altsetting |-> 1, altsetting |-> <<Setting(class)>>]

\* a configuration with one interface for each of the classes
Config(classes) ==
    [available |-> TRUE, bNumInterfaces |-> Len(classes),
     interface |-> [i \in 1..Len(classes) |-> Interface(classes[i])]]

\* libusb_get_active_config_descriptor fails
NoConfig == [available |-> FALSE, bNumInterfaces |-> 0, interface |-> <<>>]

UsbDevice(vendorId, productId, class, speed, isOpen, config) ==
    [vendorId |-> vendorId, productId |-> productId, deviceClass |-> class,
     speed |-> speed, isOpen |-> isOpen, config |-> config]

VendorA == 4660
ProductA == 22136
VendorB == 1133
ProductB == 49271

Keyboard ==
    UsbDevice(VendorA, ProductA, ClassHID, LIBUSB_SPEED_FULL, TRUE,
              Config(<<3>>))

\* a keyboard with an interface of class 5 (Physical), which is neither
\* common nor vendor specific
OddKeyboard ==
    UsbDevice(VendorA, ProductA, ClassHID, LIBUSB_SPEED_FULL, TRUE,
              Config(<<3, 5>>))

\* a vendor specific device with one HID interface
Gadget ==
    UsbDevice(VendorA, ProductA, ClassVendorSpecific, LIBUSB_SPEED_FULL, TRUE,
              Config(<<3>>))

\* another device that reports the same identity and has a mass storage
\* interface
Clone ==
    UsbDevice(VendorA, ProductA, ClassHID, LIBUSB_SPEED_FULL, TRUE,
              Config(<<3, 8>>))

Modem ==
    UsbDevice(VendorB, ProductB, ClassCDC, LIBUSB_SPEED_FULL, TRUE,
              Config(<<2, 10>>))

ClassDevice(class, speed) ==
    UsbDevice(VendorA, ProductA, class, speed, TRUE, Config(<<class>>))

\* the devices the authorizer is exercised with
AuthProfiles ==
    {ClassDevice(ClassHID, LIBUSB_SPEED_FULL),
     ClassDevice(ClassHub, LIBUSB_SPEED_HIGH),
     ClassDevice(ClassPrinter, LIBUSB_SPEED_FULL),
     ClassDevice(ClassMassStorage, LIBUSB_SPEED_HIGH),
     ClassDevice(ClassVideo, LIBUSB_SPEED_HIGH),
     ClassDevice(ClassCDC, LIBUSB_SPEED_FULL),
     ClassDevice(ClassVendorSpecific, LIBUSB_SPEED_FULL)}

AuthDevs == {"devA"}

\* descriptor trees for the protocol validation: the last alternate setting
\* of the last interface is the one given, everything before it is a HID
\* interface with one setting
ProtoSetting(class, attributes, size) ==
    [bInterfaceClass |-> class, endpoint |-> <<Endpoint(attributes, size)>>]

ProtoInterface(alts, last) ==
    [num_altsetting |-> alts,
     altsetting |-> [j \in 1..alts |-> IF j = alts THEN last ELSE Setting(3)]]

ProtoConfig(n, alts, last) ==
    [available |-> TRUE, bNumInterfaces |-> n,
     interface |-> [i \in 1..n |-> IF i = n THEN ProtoInterface(alts, last)
                                   ELSE Interface(3)]]

\* interface counts, alternate setting counts and packet sizes at and above
\* the limits; interface classes HID, Physical, Wireless, Application
\* Specific and Vendor Specific; a bulk endpoint and one with every
\* attribute bit set; a device that is not open and one whose descriptor
\* cannot be read
ProtoDevices ==
    {UsbDevice(VendorA, ProductA, ClassHID, LIBUSB_SPEED_FULL, TRUE,
               ProtoConfig(n, a, ProtoSetting(c, t, z))) :
        n \in {1, 2, MaxInterfaces, MaxInterfaces + 1},
        a \in {1, MaxAltSettings, MaxAltSettings + 1},
        c \in {3, 5, 224, 254, LIBUSB_CLASS_VENDOR_SPEC},
        t \in {2, 255},
        z \in {512, MaxPacketSize, MaxPacketSize + 1, 65535}}
    \cup {UsbDevice(VendorA, ProductA, ClassHID, LIBUSB_SPEED_FULL, FALSE,
                    Config(<<3>>)),
          UsbDevice(VendorA, ProductA, ClassHID, LIBUSB_SPEED_FULL, TRUE,
                    NoConfig)}

ProtoScenarios == {[devA |-> p, devB |-> Clone] : p \in ProtoDevices}

\* the pairs of devices the security manager is exercised with
SecScenarios ==
    {[devA |-> p, devB |-> Clone] : p \in {Keyboard, OddKeyboard, Gadget}}

(***************************************************************************)
(* Inputs                                                                  *)
(***************************************************************************)
PresetLevels == {"Low", "Medium", "High"}
Answers == {"yes", "no", "none"}
Relocks == {"hang", "proceed"}
Verdicts == {"grant", "deny"}
Booleans == {TRUE, FALSE}

\* the three presets, every check at once, the certificate check alone,
\* no check at all, and the confirmation alone with a timeout of 0 seconds
PolicyInputs ==
    {levelPolicy("Low"), levelPolicy("Medium"), levelPolicy("High"),
     AuthorizationPolicy(TRUE, TRUE, TRUE, TRUE, DefaultAuthTimeout),
     AuthorizationPolicy(FALSE, FALSE, TRUE, FALSE, DefaultAuthTimeout),
     AuthorizationPolicy(FALSE, FALSE, FALSE, FALSE, DefaultAuthTimeout),
     AuthorizationPolicy(FALSE, TRUE, FALSE, FALSE, 0)}

Rule(vendorId, productId, whitelisted, interfaces, expiry) ==
    [vendorId |-> vendorId, productId |-> productId,
     isWhitelisted |-> whitelisted, requireAuthorization |-> TRUE,
     securityLevel |-> "Medium", allowedInterfaces |-> interfaces,
     expiryDate |-> expiry]

\* the expiry dates of the rule inputs: RuleExpiry has passed when the
\* program starts, RuleExpiry + 1 is the time it starts at
RuleExpiry == 1

RuleInputs ==
    {Rule(VendorA, ProductA, TRUE, <<>>, Epoch),
     Rule(VendorA, ProductA, TRUE, <<"0x03">>, RuleExpiry + 1),
     Rule(VendorA, ProductA, TRUE, <<"0x03">>, RuleExpiry)}

\* the rules the configuration operations are exercised with: the rule
\* inputs and a rule for the second vendor:product pair
ConfRuleInputs ==
    RuleInputs \cup {Rule(VendorB, ProductB, TRUE, <<>>, Epoch)}

ConfigInputs ==
    {[readable |-> FALSE, hasLevel |-> FALSE, level |-> "Low", rules |-> <<>>],
     [readable |-> TRUE, hasLevel |-> TRUE, level |-> "High",
      rules |-> <<Rule(VendorB, ProductB, TRUE, <<"0x02", "0x0A">>, Epoch),
                  Rule(VendorA, ProductA, FALSE, <<>>, Epoch),
                  Rule(VendorA, ProductA, TRUE, <<>>, Epoch)>>]}

(***************************************************************************)
(* DeviceManager with its PowerManager and BandwidthMonitor                *)
(*                                                                         *)
(* Two threads run the code: "loop" is the thread of the Qt event loop,    *)
(* which constructs the manager, polls, runs the monitoring timers and the *)
(* user's actions; "notify" is the thread on which libusb delivers         *)
(* hot-plug callbacks once the manager runs.  A step of a thread is one    *)
(* critical section or the code between two critical sections.             *)
(***************************************************************************)
Threads == {"notify", "loop"}

MaxPlugs == 2
MaxObjects == 3

NativeDevice(vendorId, productId, bus, address) ==
    [idVendor |-> vendorId, idProduct |-> productId, bus |-> bus,
     address |-> address]

\* what libusb can enumerate
NativeDevices == {NativeDevice(VendorA, ProductA, 1, 2)}

\* part_006 lines 226-244
getDeviceIdentifier(device) ==
    HexUpper(device.idVendor, 4) \o ":" \o HexUpper(device.idProduct, 4)
    \o ":" \o HexUpper(device.bus, 2) \o ":" \o HexUpper(device.address, 2)

Keys == {getDeviceIdentifier(n) : n \in NativeDevices}

NoKeys == [k \in {} |-> FALSE]

NoObjects == [o \in {} |-> "loop"]

\* a set of keys in the order an iteration visits them
RECURSIVE listOf(_)
listOf(S) ==
    IF S = {} THEN <<>>
    ELSE LET k == CHOOSE x \in S : TRUE IN <<k>> \o listOf(S \ {k})

\* what a poll met: the keys libusb_get_device_list returned and how often
\* each key had been plugged in by then, and the keys of the registry with
\* the signals emitted so far when the poll copied them
NoBase ==
    [enumerated |-> {}, plugs |-> <<>>, registered |-> {}, added |-> <<>>,
     removed |-> <<>>]

\* a thread that is not inside any of the operations; result tells how the
\* arrival handler it ran last, if any, ended
Idle(result) ==
    [op |-> "idle", step |-> result, key |-> "", obj |-> 0, nested |-> FALSE,
     list |-> <<>>, cur |-> NoKeys, base |-> NoBase]

\* UsbDevice.cpp lines 17 and 111-113, with what the manager did with it
UsbDeviceObject(key) ==
    [key |-> key, isOpen |-> FALSE, announced |-> FALSE, removed |-> FALSE]

\* std::map::erase on a map keyed by object or key
Erase(map, key) == [k \in (DOMAIN map) \ {key} |-> map[k]]

\* part_008 lines 94-115 and BandwidthMonitor.cpp lines 117-139: the timers
\* after startMonitoring(object) on thread t.  A QTimer belongs to the thread
\* that creates it.
startMonitoring(timers, object, t) ==
    IF object \in DOMAIN timers THEN timers ELSE (object :> t) @@ timers

\* part_008 lines 117-131 and BandwidthMonitor.cpp lines 141-155
stopMonitoring(timers, object) == Erase(timers, object)

\* std::lock_guard on devicesMutex by thread t: possible when the mutex is
\* free; locking a std::mutex the thread already owns is undefined, the call
\* either never returns or goes on as if it had acquired the mutex
Lockable(t, relock) ==
    \/ devicesMutex = "free" /\ relock = "proceed"
    \/ devicesMutex = t

Hangs(t, relock) == devicesMutex = t /\ relock = "hang"

Deadlock(t) ==
    /\ thread' = [thread EXCEPT ![t].op = "deadlock"]
    /\ signals' = <<>>
    /\ UNCHANGED <<phase, attached, plugs, devices, objects, powerTimers,
                   bwTimers, powerStats, bwStats, devicesMutex, addedCount,
                   removedCount>>

\* the thread after its handler returned: to the caller of the callback, or
\* into pollDevices, which marks the key (line 160) or goes to the next
\* entry (line 172) and lets its lock_guard go
afterHandler(t, result) ==
    IF ~thread[t].nested THEN Idle(result)
    ELSE [thread[t] EXCEPT
            !.op = "poll",
            !.step = IF thread[t].op = "arrival" THEN "scan" ELSE "sweep",
            !.key = "", !.obj = 0, !.nested = FALSE,
            !.list = Tail(thread[t].list),
            !.cur = IF thread[t].op = "arrival"
                    THEN (thread[t].key :> TRUE) @@ thread[t].cur
                    ELSE thread[t].cur]

MutexAfterReturn(t) == IF thread[t].nested THEN "free" ELSE devicesMutex

\* everything the registry operations leave alone
restUnchanged ==
    UNCHANGED <<now, clockSteps, dev, authVars, secVars, telVars, extVars>>

\* a device is plugged in or pulled out
Plug(device) ==
    /\ device \notin attached
    /\ plugs[getDeviceIdentifier(device)] < MaxPlugs
    /\ attached' = attached \cup {device}
    /\ plugs' = [plugs EXCEPT ![getDeviceIdentifier(device)] = @ + 1]
    /\ signals' = <<>>
    /\ UNCHANGED <<phase, devices, objects, powerTimers, bwTimers, powerStats,
                   bwStats, devicesMutex, thread, addedCount, removedCount>>
    /\ restUnchanged

Unplug(device) ==
    /\ device \in attached
    /\ attached' = attached \ {device}
    /\ signals' = <<>>
    /\ UNCHANGED <<phase, plugs, devices, objects, powerTimers, bwTimers,
                   powerStats, bwStats, devicesMutex, thread, addedCount,
                   removedCount>>
    /\ restUnchanged

\* part_006 lines 38-63: the constructor returns; the callbacks that
\* LIBUSB_HOTPLUG_ENUMERATE asks for have run on the constructing thread
DeviceManager_constructed ==
    /\ phase = "constructor"
    /\ thread["loop"].op = "idle"
    /\ phase' = "running"
    /\ signals' = <<>>
    /\ UNCHANGED <<attached, plugs, devices, objects, powerTimers, bwTimers,
                   powerStats, bwStats, devicesMutex, thread, addedCount,
                   removedCount>>
    /\ restUnchanged

\* part_006 lines 42-46: libusb_init fails; the constructor emits error and
\* returns before it creates the monitors, the poll timer and the hot-plug
\* registration
DeviceManager_initFailed ==
    /\ phase = "constructor"
    /\ thread["loop"] = Idle("")
    /\ objects = <<>>
    /\ phase' = "failed"
    /\ signals' = <<Signal("error", "", "Failed to initialize libusb")>>
    /\ UNCHANGED <<attached, plugs, devices, objects, powerTimers, bwTimers,
                   powerStats, bwStats, devicesMutex, thread, addedCount,
                   removedCount>>
    /\ restUnchanged

\* part_006 lines 65-80: the destructor stops the poll timer, deregisters
\* the hot-plug callback and clears the device map under the lock; the
\* monitors are members of Private and still hold their timers
DeviceManager_destructor ==
    /\ phase = "running"
    /\ \A t \in Threads : thread[t].op = "idle"
    /\ devicesMutex = "free"
    /\ phase' = "teardown"
    /\ devices' = NoObjects
    /\ thread' = [t \in Threads |-> Idle("")]
    /\ signals' = <<>>
    /\ UNCHANGED <<attached, plugs, objects, powerTimers, bwTimers, powerStats,
                   bwStats, devicesMutex, addedCount, removedCount>>
    /\ restUnchanged

\* part_006 lines 82-86 and the destruction of Private: libusb_exit, then
\* ~BandwidthMonitor (BandwidthMonitor.cpp lines 108-114) and ~PowerManager
\* (part_008 lines 86-92) stop and delete the timers they hold
DeviceManager_destroyed ==
    /\ phase = "teardown"
    /\ phase' = "destroyed"
    /\ powerTimers' = NoObjects
    /\ bwTimers' = NoObjects
    /\ powerStats' = {}
    /\ bwStats' = {}
    /\ signals' = <<>>
    /\ UNCHANGED <<attached, plugs, devices, objects, devicesMutex, thread,
                   addedCount, removedCount>>
    /\ restUnchanged

\* part_006 lines 192-193 and 219-220: d->powerMgr and d->bwMonitor are
\* only set at lines 49-50; after a failed libusb_init the calls go through
\* null unique_ptrs, which is undefined: the process is killed, or the call
\* comes back without having done anything
NullCalls == {"crash", "return"}

collaboratorsAreNull == phase = "failed"

\* the thread of a process that was killed
Crash(t) ==
    /\ thread' = [thread EXCEPT ![t].op = "crash"]
    /\ signals' = <<>>
    /\ UNCHANGED <<phase, attached, plugs, devices, objects, powerTimers,
                   bwTimers, powerStats, bwStats, devicesMutex, addedCount,
                   removedCount>>

\* part_006 lines 23-35: libusb calls back for an attached device that
\* arrived (again) or for a device that left; during construction on the
\* constructing thread, afterwards on the notification thread
hotplugCallback(t, device, event) ==
    /\ thread[t].op = "idle"
    /\ \/ t = "loop" /\ phase = "constructor" /\ event = "arrived"
       \/ t = "notify" /\ phase = "running"
    /\ event = "arrived" <=> device \in attached
    /\ thread' = [thread EXCEPT ![t] =
                     [Idle("") EXCEPT
                        !.op = IF event = "arrived" THEN "arrival" ELSE "removal",
                        !.step = IF event = "arrived" THEN "check" ELSE "erase",
                        !.key = getDeviceIdentifier(device)]]
    /\ signals' = <<>>
    /\ UNCHANGED <<phase, attached, plugs, devices, objects, powerTimers,
                   bwTimers, powerStats, bwStats, devicesMutex, addedCount,
                   removedCount>>
    /\ restUnchanged

\* part_006 line 183
isPresentNever(id) == FALSE

isPresent(id) == id \in DOMAIN devices

\* part_006 lines 177-186: under the lock, return when the key is present
handleDeviceArrival_check(t, relock) ==
    /\ thread[t].op = "arrival" /\ thread[t].step = "check"
    /\ Lockable(t, relock)
    /\ IF Hangs(t, relock) THEN Deadlock(t)
       ELSE /\ devicesMutex' = IF isPresent(thread[t].key)
                               THEN MutexAfterReturn(t) ELSE "free"
            /\ thread' = [thread EXCEPT ![t] =
                            IF isPresent(thread[t].key)
                            THEN afterHandler(t, "present")
                            ELSE [thread[t] EXCEPT !.step = "create"]]
            /\ signals' = <<>>
            /\ UNCHANGED <<phase, attached, plugs, devices, objects,
                           powerTimers, bwTimers, powerStats, bwStats,
                           addedCount, removedCount>>
    /\ restUnchanged

\* part_006 lines 188-193: the object is created and both monitors start;
\* the first power sample (part_008 line 114) finds the device closed
handleDeviceArrival_create(t, nullCall) ==
    LET object == Len(objects) + 1 IN
    /\ thread[t].op = "arrival" /\ thread[t].step = "create"
    /\ Len(objects) < MaxObjects
    /\ collaboratorsAreNull \/ nullCall = "return"
    /\ IF collaboratorsAreNull /\ nullCall = "crash"
       THEN Crash(t)
       ELSE /\ objects' = Append(objects, UsbDeviceObject(thread[t].key))
            /\ powerTimers' = IF collaboratorsAreNull THEN powerTimers
                              ELSE startMonitoring(powerTimers, object, t)
            /\ bwTimers' = IF collaboratorsAreNull THEN bwTimers
                           ELSE startMonitoring(bwTimers, object, t)
            /\ bwStats' = IF collaboratorsAreNull THEN bwStats
                          ELSE bwStats \cup {object}
            /\ thread' = [thread EXCEPT ![t].step = "insert",
                                        ![t].obj = object]
            /\ signals' = <<>>
            /\ UNCHANGED <<phase, attached, plugs, devices, powerStats,
                           devicesMutex, addedCount, removedCount>>
    /\ restUnchanged

\* part_006 lines 195-199
handleDeviceArrival_insert(t) ==
    /\ thread[t].op = "arrival" /\ thread[t].step = "insert"
    /\ devicesMutex = "free"
    /\ devices' = (thread[t].key :> thread[t].obj) @@ devices
    /\ thread' = [thread EXCEPT ![t].step = "emit"]
    /\ signals' = <<>>
    /\ UNCHANGED <<phase, attached, plugs, objects, powerTimers, bwTimers,
                   powerStats, bwStats, devicesMutex, addedCount, removedCount>>
    /\ restUnchanged

\* part_006 line 201 and the return
handleDeviceArrival_emit(t) ==
    /\ thread[t].op = "arrival" /\ thread[t].step = "emit"
    /\ addedCount' = [addedCount EXCEPT ![thread[t].key] = @ + 1]
    /\ objects' = [objects EXCEPT ![thread[t].obj].announced = TRUE]
    /\ signals' = <<Signal("deviceAdded", thread[t].key,
                           ToString(thread[t].obj))>>
    /\ thread' = [thread EXCEPT ![t] = afterHandler(t, "added")]
    /\ devicesMutex' = MutexAfterReturn(t)
    /\ UNCHANGED <<phase, attached, plugs, devices, powerTimers, bwTimers,
                   powerStats, bwStats, removedCount>>
    /\ restUnchanged

\* part_006 lines 204-216: under the lock, take the entry out of the map
handleDeviceRemoval_erase(t, relock) ==
    /\ thread[t].op = "removal" /\ thread[t].step = "erase"
    /\ Lockable(t, relock)
    /\ IF Hangs(t, relock) THEN Deadlock(t)
       ELSE /\ devicesMutex' = IF thread[t].key \in DOMAIN devices
                               THEN "free" ELSE MutexAfterReturn(t)
            /\ devices' = Erase(devices, thread[t].key)
            /\ thread' = [thread EXCEPT ![t] =
                            IF thread[t].key \in DOMAIN devices
                            THEN [thread[t] EXCEPT
                                    !.step = "stop",
                                    !.obj = devices[thread[t].key]]
                            ELSE afterHandler(t, "absent")]
            /\ signals' = <<>>
            /\ UNCHANGED <<phase, attached, plugs, objects, powerTimers,
                           bwTimers, powerStats, bwStats, addedCount,
                           removedCount>>
    /\ restUnchanged

\* part_006 lines 218-220
handleDeviceRemoval_stop(t, nullCall) ==
    /\ thread[t].op = "removal" /\ thread[t].step = "stop"
    /\ collaboratorsAreNull \/ nullCall = "return"
    /\ IF collaboratorsAreNull /\ nullCall = "crash"
       THEN Crash(t)
       ELSE /\ powerTimers' = stopMonitoring(powerTimers, thread[t].obj)
            /\ powerStats' = powerStats \ {thread[t].obj}
            /\ bwTimers' = stopMonitoring(bwTimers, thread[t].obj)
            /\ bwStats' = bwStats \ {thread[t].obj}
            /\ thread' = [thread EXCEPT ![t].step = "emit"]
            /\ signals' = <<>>
            /\ UNCHANGED <<phase, attached, plugs, devices, objects,
                           devicesMutex, addedCount, removedCount>>
    /\ restUnchanged

\* part_006 line 222 and the return
handleDeviceRemoval_emit(t) ==
    /\ thread[t].op = "removal" /\ thread[t].step = "emit"
    /\ removedCount' = [removedCount EXCEPT ![thread[t].key] = @ + 1]
    /\ objects' = [objects EXCEPT ![thread[t].obj].removed = TRUE]
    /\ signals' = <<Signal("deviceRemoved", thread[t].key,
                           ToString(thread[t].obj))>>
    /\ thread' = [thread EXCEPT ![t] = afterHandler(t, "removed")]
    /\ devicesMutex' = MutexAfterReturn(t)
    /\ UNCHANGED <<phase, attached, plugs, devices, powerTimers, bwTimers,
                   powerStats, bwStats, addedCount>>
    /\ restUnchanged

\* part_006 lines 132-139: the poll timer fires or a client calls the slot
\* (after a failed libusb_init only a client can, and the list is asked of
\* the null context); libusb_get_device_list gives the list or fails
pollDevices(listed) ==
    /\ phase \in {"running", "failed"}
    /\ thread["loop"].op = "idle"
    /\ thread' = [thread EXCEPT !["loop"] =
                     IF ~listed THEN Idle("enumeration failed")
                     ELSE [Idle("") EXCEPT
                        !.op = "poll", !.step = "snapshot",
                        !.list = listOf({getDeviceIdentifier(n) :
                                           n \in attached}),
                        !.base = [NoBase EXCEPT
                                    !.enumerated = {getDeviceIdentifier(n) :
                                                      n \in attached},
                                    !.plugs = plugs]]]
    /\ signals' = IF listed THEN <<>>
                  ELSE <<Signal("error", "", "Failed to get device list")>>
    /\ UNCHANGED <<phase, attached, plugs, devices, objects, powerTimers,
                   bwTimers, powerStats, bwStats, devicesMutex, addedCount,
                   removedCount>>
    /\ restUnchanged

\* part_006 lines 141-148
pollDevices_snapshot ==
    /\ thread["loop"].op = "poll" /\ thread["loop"].step = "snapshot"
    /\ devicesMutex = "free"
    /\ thread' = [thread EXCEPT
                     !["loop"].step = "scan",
                     !["loop"].cur = [id \in DOMAIN devices |-> FALSE],
                     !["loop"].base = [thread["loop"].base EXCEPT
                                         !.registered = DOMAIN devices,
                                         !.added = addedCount,
                                         !.removed = removedCount]]
    /\ signals' = <<>>
    /\ UNCHANGED <<phase, attached, plugs, devices, objects, powerTimers,
                   bwTimers, powerStats, bwStats, devicesMutex, addedCount,
                   removedCount>>
    /\ restUnchanged

\* part_006 lines 150-161, one iteration: under the lock, an unknown key is
\* handed to handleDeviceArrival, a known one is marked; after the last
\* device the keys that were not seen are collected (line 164)
pollDevices_scan ==
    LET me == thread["loop"] IN
    /\ me.op = "poll" /\ me.step = "scan"
    /\ IF me.list = <<>>
       THEN /\ thread' = [thread EXCEPT
                            !["loop"].step = "sweep",
                            !["loop"].list =
                                listOf({id \in DOMAIN me.cur : ~me.cur[id]})]
            /\ UNCHANGED devicesMutex
       ELSE /\ devicesMutex = "free"
            /\ IF isPresent(Head(me.list))
               THEN /\ thread' = [thread EXCEPT
                                    !["loop"].list = Tail(me.list),
                                    !["loop"].cur =
                                        (Head(me.list) :> TRUE) @@ me.cur]
                    /\ UNCHANGED devicesMutex
               ELSE /\ thread' = [thread EXCEPT
                                    !["loop"].op = "arrival",
                                    !["loop"].step = "check",
                                    !["loop"].key = Head(me.list),
                                    !["loop"].nested = TRUE]
                    /\ devicesMutex' = "loop"
    /\ signals' = <<>>
    /\ UNCHANGED <<phase, attached, plugs, devices, objects, powerTimers,
                   bwTimers, powerStats, bwStats, addedCount, removedCount>>
    /\ restUnchanged

\* part_006 lines 163-174, one iteration: under the lock, a key that was not
\* seen and is still in the map is handed to handleDeviceRemoval
pollDevices_sweep ==
    LET me == thread["loop"] IN
    /\ me.op = "poll" /\ me.step = "sweep"
    /\ IF me.list = <<>>
       THEN /\ thread' = [thread EXCEPT !["loop"] = Idle("")]
            /\ UNCHANGED devicesMutex
       ELSE /\ devicesMutex = "free"
            /\ IF Head(me.list) \in DOMAIN devices
               THEN /\ thread' = [thread EXCEPT
                                    !["loop"].op = "removal",
                                    !["loop"].step = "erase",
                                    !["loop"].key = Head(me.list),
                                    !["loop"].nested = TRUE]
                    /\ devicesMutex' = "loop"
               ELSE /\ thread' = [thread EXCEPT
                                    !["loop"].list = Tail(me.list)]
                    /\ UNCHANGED devicesMutex
    /\ signals' = <<>>
    /\ UNCHANGED <<phase, attached, plugs, devices, objects, powerTimers,
                   bwTimers, powerStats, bwStats, addedCount, removedCount>>
    /\ restUnchanged

\* UsbDevice.cpp lines 89-101: the user opens a device the tray shows
UsbDevice_open(object) ==
    /\ phase = "running"
    /\ thread["loop"].op = "idle"
    /\ objects[object].announced /\ ~objects[object].isOpen
    /\ objects' = [objects EXCEPT ![object].isOpen = TRUE]
    /\ thread' = [thread EXCEPT !["loop"] = Idle("")]
    /\ signals' = <<>>
    /\ UNCHANGED <<phase, attached, plugs, devices, powerTimers, bwTimers,
                   powerStats, bwStats, devicesMutex, addedCount, removedCount>>
    /\ restUnchanged

\* a timer fires on the thread it belongs to; only the event loop thread
\* dispatches timers
Fires(timers, object) ==
    /\ phase = "running"
    /\ thread["loop"].op = "idle"
    /\ object \in DOMAIN timers
    /\ timers[object] = "loop"

\* part_008 lines 16-70: the timeout of a power timer; a closed device is
\* skipped, an open one is queried
updateDevicePower(object) ==
    /\ Fires(powerTimers, object)
    /\ thread' = [thread EXCEPT !["loop"] =
                     IF objects[object].isOpen
                     THEN [Idle("") EXCEPT !.op = "powerTick",
                                           !.step = "publish",
                                           !.key = objects[object].key,
                                           !.obj = object]
                     ELSE Idle("")]
    /\ signals' = <<>>
    /\ UNCHANGED <<phase, attached, plugs, devices, objects, powerTimers,
                   bwTimers, powerStats, bwStats, devicesMutex, addedCount,
                   removedCount>>
    /\ restUnchanged

\* part_008 lines 71-76
updateDevicePower_publish ==
    LET me == thread["loop"] IN
    /\ me.op = "powerTick" /\ me.step = "publish"
    /\ powerStats' = powerStats \cup {me.obj}
    /\ signals' = <<Signal("powerStatsUpdated", me.key, ToString(me.obj))>>
    /\ thread' = [thread EXCEPT !["loop"] = Idle("")]
    /\ UNCHANGED <<phase, attached, plugs, devices, objects, powerTimers,
                   bwTimers, bwStats, devicesMutex, addedCount, removedCount>>
    /\ restUnchanged

\* BandwidthMonitor.cpp lines 28-68: the timeout of a bandwidth timer
updateDeviceBandwidth(object) ==
    /\ Fires(bwTimers, object)
    /\ thread' = [thread EXCEPT !["loop"] =
                     IF objects[object].isOpen
                     THEN [Idle("") EXCEPT !.op = "bwTick",
                                           !.step = "publish",
                                           !.key = objects[object].key,
                                           !.obj = object]
                     ELSE Idle("")]
    /\ bwStats' = IF objects[object].isOpen
                  THEN bwStats \cup {object} ELSE bwStats
    /\ signals' = <<>>
    /\ UNCHANGED <<phase, attached, plugs, devices, objects, powerTimers,
                   bwTimers, powerStats, devicesMutex, addedCount,
                   removedCount>>
    /\ restUnchanged

\* BandwidthMonitor.cpp line 26 and lines 103-106: Private is value-initialised
\* by std::make_unique<Private>(), which zeroes q_ptr, and nothing assigns it
q_ptr == "nullptr"

\* BandwidthMonitor.cpp lines 70-72: statsUpdated is emitted through q_ptr
statsUpdatedSignals(key, text) ==
    IF q_ptr # "nullptr" THEN <<Signal("statsUpdated", key, text)>> ELSE <<>>

\* BandwidthMonitor.cpp lines 70-72
updateDeviceBandwidth_publish ==
    LET me == thread["loop"] IN
    /\ me.op = "bwTick" /\ me.step = "publish"
    /\ signals' = statsUpdatedSignals(me.key, ToString(me.obj))
    /\ thread' = [thread EXCEPT !["loop"] = Idle("")]
    /\ UNCHANGED <<phase, attached, plugs, devices, objects, powerTimers,
                   bwTimers, powerStats, bwStats, devicesMutex, addedCount,
                   removedCount>>
    /\ restUnchanged


(***************************************************************************)
(* PowerManager and BandwidthMonitor on their own                          *)
(*                                                                         *)
(* The calls and the timeouts of the timers run on the one thread that     *)
(* owns the monitors.  A QTimer is held with the time it is due next.      *)
(***************************************************************************)
MaxSteadySteps == 2

BANDWIDTH_WINDOW == 5000
PowerInterval == 1000
BandwidthInterval == 100
LIBUSB_SPEED_SUPER == 4
LIBUSB_ENDPOINT_IN == 128
SelfPoweredBit == 64
UsbVoltage == 5

\* the steps the steady clock is advanced by: the length of the bandwidth
\* window, and one bandwidth interval more
SteadyDeltas == {BANDWIDTH_WINDOW, BANDWIDTH_WINDOW + BandwidthInterval}

MonEndpoint(address, size) ==
    [bEndpointAddress |-> address, bmAttributes |-> 2, wMaxPacketSize |-> size]

\* a configuration with one interface of one setting that has the endpoints
MonConfig(maxPower, attributes, endpoints) ==
    [available |-> TRUE, MaxPower |-> maxPower, bmAttributes |-> attributes,
     bNumInterfaces |-> 1,
     interface |-> <<[num_altsetting |-> 1,
                      altsetting |-> <<[bInterfaceClass |-> 3,
                                        bNumEndpoints |-> Len(endpoints),
                                        endpoint |-> endpoints]>>]>>]

RECURSIVE Concat(_)
Concat(seqs) == IF seqs = <<>> THEN <<>> ELSE Head(seqs) \o Concat(Tail(seqs))

\* BandwidthMonitor.cpp lines 38-44: the endpoints in the order the three
\* loops visit them
endpointsInOrder(config) ==
    Concat([i \in 1..config.bNumInterfaces |->
              Concat([j \in 1..config.interface[i].num_altsetting |->
                        config.interface[i].altsetting[j].endpoint])])

\* a bus powered hub-like device with two IN endpoints and one OUT endpoint
Dock ==
    UsbDevice(VendorA, ProductA, ClassHub, LIBUSB_SPEED_HIGH, TRUE,
              MonConfig(50, 128, <<MonEndpoint(129, 64), MonEndpoint(130, 64),
                                   MonEndpoint(1, 512)>>))

\* a self powered SuperSpeed disk with one endpoint in each direction
Disk ==
    UsbDevice(VendorA, ProductA, ClassMassStorage, LIBUSB_SPEED_SUPER, TRUE,
              MonConfig(250, 192, <<MonEndpoint(129, 1024),
                                    MonEndpoint(2, 1024)>>))

\* a device nobody has opened
ClosedDisk ==
    UsbDevice(VendorA, ProductA, ClassMassStorage, LIBUSB_SPEED_SUPER, FALSE,
              MonConfig(250, 192, <<MonEndpoint(129, 1024),
                                    MonEndpoint(2, 1024)>>))

\* a mouse nobody has opened
Mouse ==
    UsbDevice(VendorB, ProductB, ClassHID, LIBUSB_SPEED_FULL, FALSE,
              MonConfig(49, 160, <<MonEndpoint(129, 8)>>))

MonScenarios ==
    {[devA |-> p, devB |-> Mouse] : p \in {Dock, Disk, ClosedDisk}}

\* what libusb answers during one power tick: whether the configuration
\* descriptor can be read, the two status bytes as a number (-1: the control
\* transfer does not return 2 bytes), whether the BOS descriptor can be read
NativeReply(config, status, bos) ==
    [config |-> config, status |-> status, bos |-> bos]

\* every call succeeds; every call fails
NativeReplies == {NativeReply(TRUE, 50, TRUE), NativeReply(FALSE, -1, FALSE)}

\* part_002 lines 23-29
PowerStats(currentUsage, voltage, powerUsage, selfPowered, maxPower) ==
    [currentUsage |-> currentUsage, voltage |-> voltage,
     powerUsage |-> powerUsage, selfPowered |-> selfPowered,
     maxPower |-> maxPower]

\* PowerStats{}
ZeroPowerStats == PowerStats(0, 0, 0, FALSE, 0)

\* BandwidthMonitor.cpp lines 12-17: TransferStats{}
TransferStats ==
    [readHistory |-> <<>>, writeHistory |-> <<>>, totalBytesRead |-> 0,
     totalBytesWritten |-> 0]

RECURSIVE GCD(_, _)
GCD(a, b) == IF b = 0 THEN a ELSE GCD(b, a % b)

\* the double n / d, held as a fraction in lowest terms
Ratio(n, d) == [num |-> n \div GCD(n, d), den |-> d \div GCD(n, d)]

ZeroSpeed == Ratio(0, 1)

\* part_002 lines 31-37
BandwidthStats(bytesRead, bytesWritten, readSpeed, writeSpeed, speedClass) ==
    [bytesRead |-> bytesRead, bytesWritten |-> bytesWritten,
     readSpeed |-> readSpeed, writeSpeed |-> writeSpeed,
     speedClass |-> speedClass]

\* BandwidthStats{}
ZeroBandwidthStats == BandwidthStats(0, 0, ZeroSpeed, ZeroSpeed, 0)

\* BandwidthMonitor.cpp lines 86-90: samples leave at the front while the
\* front one is more than BANDWIDTH_WINDOW old
RECURSIVE popOld(_, _)
popOld(history, t) ==
    IF history # <<>> /\ t - Head(history)[1] > BANDWIDTH_WINDOW
    THEN popOld(Tail(history), t)
    ELSE history

\* BandwidthMonitor.cpp lines 76-91, for one direction: the history and the
\* total after an endpoint of the direction was sampled at time t
updateTransferStats(history, totalBytes, maxPacketSize, t) ==
    [history |-> popOld(Append(history, <<t, totalBytes + maxPacketSize>>), t),
     totalBytes |-> totalBytes + maxPacketSize]

\* BandwidthMonitor.cpp lines 93-101: bytes per second, the time span taken
\* in whole milliseconds and divided by 1000.0
calculateSpeedPerMillisecond(history) ==
    IF Len(history) < 2 THEN ZeroSpeed
    ELSE LET timeSpan == history[Len(history)][1] - history[1][1]
             byteSpan == history[Len(history)][2] - history[1][2]
         IN IF timeSpan > 0 THEN Ratio(byteSpan, timeSpan) ELSE ZeroSpeed

calculateSpeed(history) ==
    IF Len(history) < 2 THEN ZeroSpeed
    ELSE LET timeSpan == history[Len(history)][1] - history[1][1]
             byteSpan == history[Len(history)][2] - history[1][2]
         IN IF timeSpan > 0 THEN Ratio(byteSpan * 1000, timeSpan)
            ELSE ZeroSpeed

\* BandwidthMonitor.cpp lines 43-56: the statistics after the endpoints
\* were visited at time t
RECURSIVE sampleEndpoints(_, _, _)
sampleEndpoints(stats, endpoints, t) ==
    IF endpoints = <<>> THEN stats
    ELSE LET e == Head(endpoints)
             in == (e.bEndpointAddress \div LIBUSB_ENDPOINT_IN) % 2 = 1
             r == updateTransferStats(stats.readHistory, stats.totalBytesRead,
                                      e.wMaxPacketSize, t)
             w == updateTransferStats(stats.writeHistory,
                                      stats.totalBytesWritten,
                                      e.wMaxPacketSize, t)
         IN sampleEndpoints(
                IF in THEN [stats EXCEPT !.readHistory = r.history,
                                         !.totalBytesRead = r.totalBytes]
                ELSE [stats EXCEPT !.writeHistory = w.history,
                                   !.totalBytesWritten = w.totalBytes],
                Tail(endpoints), t)

\* PowerManager::Private and BandwidthMonitor::Private after construction
NoMonitoring ==
    [deviceStats |-> [d \in {} |-> 0], monitoringTimers |-> [d \in {} |-> 0]]

NoMonCall ==
    [op |-> "none", device |-> "none", monitored |-> FALSE, failed |-> FALSE]

\* a call of op on device d, which was being monitored or not
MonCall(op, d, monitored) ==
    [op |-> op, device |-> d, monitored |-> monitored, failed |-> FALSE]

\* a timeout for device d during which a call of libusb failed or not
Timeout(op, d, failed) ==
    [op |-> op, device |-> d, monitored |-> TRUE, failed |-> failed]

\* part_008 lines 133-140
getDevicePowerStats(d) ==
    IF d \in DOMAIN powerMgr.deviceStats THEN powerMgr.deviceStats[d]
    ELSE ZeroPowerStats

\* BandwidthMonitor.cpp lines 157-173, read from the statistics given
deviceStatsOf(stats, d) ==
    IF d \in DOMAIN stats
    THEN BandwidthStats(stats[d].totalBytesRead, stats[d].totalBytesWritten,
                        calculateSpeed(stats[d].readHistory),
                        calculateSpeed(stats[d].writeHistory), dev[d].speed)
    ELSE ZeroBandwidthStats

getDeviceStats(d) == deviceStatsOf(bwMonitor.deviceStats, d)

\* part_008 lines 19-69: the statistics one power tick computes
powerSample(d, native) ==
    LET currentUsage == IF native.status >= 0 THEN native.status * 2 ELSE 0
        super == dev[d].speed >= LIBUSB_SPEED_SUPER /\ native.bos
    IN PowerStats(currentUsage,
                  IF super THEN UsbVoltage ELSE 0,
                  IF super THEN currentUsage * UsbVoltage ELSE 0,
                  IF native.config
                  THEN (dev[d].config.bmAttributes \div SelfPoweredBit) % 2 = 1
                  ELSE FALSE,
                  IF native.config THEN dev[d].config.MaxPower * 2 ELSE 0)

\* part_008 lines 16-77: deviceStats after updateDevicePower(d), and the
\* signal it emits
updateDevicePowerOutcome(d, native) ==
    IF ~dev[d].isOpen
    THEN [deviceStats |-> powerMgr.deviceStats, signals |-> <<>>]
    ELSE [deviceStats |-> (d :> powerSample(d, native)) @@ powerMgr.deviceStats,
          signals |-> <<Signal("powerStatsUpdated", d, "")>>]

\* BandwidthMonitor.cpp lines 28-73: deviceStats after
\* updateDeviceBandwidth(d) at time t, and the signal it emits
updateDeviceBandwidthOutcome(d, configOk, t) ==
    LET old == IF d \in DOMAIN bwMonitor.deviceStats
               THEN bwMonitor.deviceStats[d] ELSE TransferStats
        new == IF configOk
               THEN sampleEndpoints(old, endpointsInOrder(dev[d].config), t)
               ELSE old
    IN IF ~dev[d].isOpen
       THEN [deviceStats |-> bwMonitor.deviceStats, signals |-> <<>>]
       ELSE [deviceStats |-> (d :> new) @@ bwMonitor.deviceStats,
             signals |-> statsUpdatedSignals(d, "")]

\* everything the calls on the monitors leave alone
monUnchanged ==
    UNCHANGED <<now, clockSteps, dev, regVars, authVars, secVars, analyzer,
                lastAna, extVars>>

AdvanceSteady(delta) ==
    /\ steadySteps < MaxSteadySteps
    /\ steadyNow' = steadyNow + delta
    /\ steadySteps' = steadySteps + 1
    /\ lastMon' = NoMonCall
    /\ signals' = <<>>
    /\ UNCHANGED <<powerMgr, bwMonitor>>
    /\ monUnchanged

\* part_008 lines 94-115
PowerManager_startMonitoring(d, native) ==
    LET monitored == d \in DOMAIN powerMgr.monitoringTimers
        o == updateDevicePowerOutcome(d, native)
    IN
    /\ powerMgr' =
          IF monitored THEN powerMgr
          ELSE [deviceStats |-> o.deviceStats,
                monitoringTimers |->
                    (d :> steadyNow + PowerInterval)
                    @@ powerMgr.monitoringTimers]
    /\ signals' = IF monitored THEN <<>> ELSE o.signals
    /\ lastMon' = MonCall("PowerManager::startMonitoring", d, monitored)
    /\ UNCHANGED <<steadyNow, steadySteps, bwMonitor>>
    /\ monUnchanged

\* part_008 lines 120-130 and BandwidthMonitor.cpp lines 144-154: the
\* monitor after stopMonitoring(d)
stopOutcomeKeepsStats(mon, d) ==
    [deviceStats |-> mon.deviceStats,
     monitoringTimers |-> Erase(mon.monitoringTimers, d)]

stopOutcome(mon, d) ==
    [deviceStats |-> Erase(mon.deviceStats, d),
     monitoringTimers |-> Erase(mon.monitoringTimers, d)]

\* part_008 lines 117-131
PowerManager_stopMonitoring(d) ==
    /\ powerMgr' = stopOutcome(powerMgr, d)
    /\ signals' = <<>>
    /\ lastMon' = MonCall("PowerManager::stopMonitoring", d,
                          d \in DOMAIN powerMgr.monitoringTimers)
    /\ UNCHANGED <<steadyNow, steadySteps, bwMonitor>>
    /\ monUnchanged

\* part_008 lines 106-108: the timer of d times out
PowerManager_timeout(d, native) ==
    LET o == updateDevicePowerOutcome(d, native) IN
    /\ d \in DOMAIN powerMgr.monitoringTimers
    /\ steadyNow >= powerMgr.monitoringTimers[d]
    /\ powerMgr' = [deviceStats |-> o.deviceStats,
                    monitoringTimers |->
                        [powerMgr.monitoringTimers EXCEPT
                            ![d] = steadyNow + PowerInterval]]
    /\ signals' = o.signals
    /\ lastMon' = Timeout("PowerManager::timeout", d,
                          dev[d].isOpen /\ (~native.config \/ native.status < 0))
    /\ UNCHANGED <<steadyNow, steadySteps, bwMonitor>>
    /\ monUnchanged

\* BandwidthMonitor.cpp lines 117-139
BandwidthMonitor_startMonitoring(d) ==
    LET monitored == d \in DOMAIN bwMonitor.monitoringTimers IN
    /\ bwMonitor' =
          IF monitored THEN bwMonitor
          ELSE [deviceStats |-> (d :> TransferStats) @@ bwMonitor.deviceStats,
                monitoringTimers |->
                    (d :> steadyNow + BandwidthInterval)
                    @@ bwMonitor.monitoringTimers]
    /\ signals' = <<>>
    /\ lastMon' = MonCall("BandwidthMonitor::startMonitoring", d, monitored)
    /\ UNCHANGED <<steadyNow, steadySteps, powerMgr>>
    /\ monUnchanged

\* BandwidthMonitor.cpp lines 141-155
BandwidthMonitor_stopMonitoring(d) ==
    /\ bwMonitor' = stopOutcome(bwMonitor, d)
    /\ signals' = <<>>
    /\ lastMon' = MonCall("BandwidthMonitor::stopMonitoring", d,
                          d \in DOMAIN bwMonitor.monitoringTimers)
    /\ UNCHANGED <<steadyNow, steadySteps, powerMgr>>
    /\ monUnchanged

\* BandwidthMonitor.cpp lines 129-131: the timer of d times out
BandwidthMonitor_timeout(d, configOk) ==
    LET o == updateDeviceBandwidthOutcome(d, configOk, steadyNow) IN
    /\ d \in DOMAIN bwMonitor.monitoringTimers
    /\ steadyNow >= bwMonitor.monitoringTimers[d]
    /\ bwMonitor' = [deviceStats |-> o.deviceStats,
                     monitoringTimers |->
                         [bwMonitor.monitoringTimers EXCEPT
                             ![d] = steadyNow + BandwidthInterval]]
    /\ signals' = o.signals
    /\ lastMon' = Timeout("BandwidthMonitor::timeout", d,
                          dev[d].isOpen /\ ~configOk)
    /\ UNCHANGED <<steadyNow, steadySteps, powerMgr>>
    /\ monUnchanged

(***************************************************************************)
(* ProtocolAnalyzer                                                        *)
(***************************************************************************)
DefaultMaxHistorySize == 1000

\* bound on the recordTransfer and setMaxHistorySize calls of one behaviour
MaxAnalyzerCalls == 3

\* part_008 lines 207-213: ProtocolAnalyzer::Private after construction
NoAnalyzer ==
    [transferHistory |-> [d \in {} |-> <<>>],
     maxHistorySize |-> DefaultMaxHistorySize]

\* ProtocolAnalyzer.hpp lines 20-26: a ProtocolPattern nobody has filled in
NoPattern ==
    [device |-> "none", primaryEndpoint |-> 0,
     hasRegularTransferSizes |-> FALSE, problematicEndpoints |-> <<>>]

\* the last call on the analyzer, the pattern it built, every record that was
\* handed to recordTransfer so far (per device, in arrival order) and the
\* number of calls that changed the histories
NoAnaCall ==
    [op |-> "none", device |-> "none", pattern |-> NoPattern,
     arrived |-> [d \in {} |-> <<>>], calls |-> 0]

\* part_008 lines 199-205 and 225-231: the record recordTransfer builds; data
\* is kept as its size, the steady clock reading as the number of the arrival
TransferRecord(timestamp, endpointAddress, size, status) ==
    [timestamp |-> timestamp, endpointAddress |-> endpointAddress,
     size |-> size, isInput |-> endpointAddress >= LIBUSB_ENDPOINT_IN,
     status |-> status]

\* part_008 lines 235-238 and 450-452: while (size() > cap) pop_front(),
\* which drops the first size() - cap records of a history that is too long
trimHistoryFromBack(history, cap) ==
    IF Len(history) > cap THEN SubSeq(history, 1, cap) ELSE history

trimHistory(history, cap) ==
    IF Len(history) > cap
    THEN SubSeq(history, Len(history) - cap + 1, Len(history))
    ELSE history

\* part_008 lines 233-238: push_back, then trim
pushRecord(history, record, cap) == trimHistory(Append(history, record), cap)

historyOf(anl, d) ==
    IF d \in DOMAIN anl.transferHistory THEN anl.transferHistory[d] ELSE <<>>

\* part_008 lines 215-239
recordTransferOutcome(anl, d, record) ==
    [anl EXCEPT !.transferHistory =
        (d :> pushRecord(historyOf(anl, d), record, anl.maxHistorySize))
        @@ anl.transferHistory]

\* part_008 lines 443-454
setMaxHistorySizeOutcome(anl, size) ==
    [transferHistory |->
        [d \in DOMAIN anl.transferHistory |->
            trimHistory(anl.transferHistory[d], size)],
     maxHistorySize |-> size]

\* part_008 lines 285-295: the three std::map the analysis fills
endpointsOf(history) == {history[i].endpointAddress : i \in DOMAIN history}

endpointFrequency(history, e) ==
    Cardinality({i \in DOMAIN history : history[i].endpointAddress = e})

\* the sizes of the records lo..hi of endpoint e, added up
RECURSIVE sumOfSizes(_, _, _, _)
sumOfSizes(history, e, lo, hi) ==
    IF lo > hi THEN 0
    ELSE IF lo = hi
         THEN IF history[lo].endpointAddress = e THEN history[lo].size ELSE 0
         ELSE LET mid == (lo + hi) \div 2
              IN sumOfSizes(history, e, lo, mid)
                 + sumOfSizes(history, e, mid + 1, hi)

errorCount(history, e) ==
    Cardinality({i \in DOMAIN history : /\ history[i].endpointAddress = e
                                        /\ history[i].status # 0})

\* part_008 lines 297-300: the sum divided by the frequency
averageTransferSize(history, e) ==
    Ratio(sumOfSizes(history, e, 1, Len(history)),
          endpointFrequency(history, e))

\* the keys of a std::map<uint8_t, ...> in iteration order
RECURSIVE ascending(_)
ascending(S) ==
    IF S = {} THEN <<>>
    ELSE LET m == CHOOSE x \in S : \A y \in S : x <= y
         IN <<m>> \o ascending(S \ {m})

\* part_008 lines 308-317: std::max_element keeps the first largest element
primaryEndpointOf(history) ==
    LET keys == ascending(endpointsOf(history))
        best == CHOOSE i \in DOMAIN keys :
                   /\ \A j \in DOMAIN keys :
                         endpointFrequency(history, keys[j])
                            <= endpointFrequency(history, keys[i])
                   /\ \A j \in 1..(i - 1) :
                         endpointFrequency(history, keys[j])
                            < endpointFrequency(history, keys[i])
    IN keys[best]

\* std::abs(a - b) > 1.0 on two averages
differsByMoreThanOne(a, b) ==
    LET diff == a.num * b.den - b.num * a.den
        abs == IF diff < 0 THEN 0 - diff ELSE diff
    IN abs > a.den * b.den

\* part_008 lines 319-329: the loop with its firstSize variable, from the
\* i-th key on
RECURSIVE regularSizesFrom(_, _, _, _)
regularSizesFrom(history, keys, i, firstSize) ==
    IF i > Len(keys) THEN TRUE
    ELSE LET size == averageTransferSize(history, keys[i]) IN
         IF firstSize = Ratio(0, 1)
         THEN regularSizesFrom(history, keys, i + 1, size)
         ELSE IF differsByMoreThanOne(size, firstSize)
              THEN FALSE
              ELSE regularSizesFrom(history, keys, i + 1, firstSize)

\* part_008 lines 332-338: errorRate > 0.1 on the endpoints that have errors;
\* count / frequency > 0.1 in double is count * 10 > frequency for every
\* history a process can hold
isProblematicFromTenPercent(history, e) ==
    /\ errorCount(history, e) > 0
    /\ errorCount(history, e) * 10 >= endpointFrequency(history, e)

isProblematic(history, e) ==
    /\ errorCount(history, e) > 0
    /\ errorCount(history, e) * 10 > endpointFrequency(history, e)

\* part_008 lines 302-338: the pattern analyzeTransferPatterns builds
patternOf(d, history) ==
    [device |-> d,
     primaryEndpoint |-> primaryEndpointOf(history),
     hasRegularTransferSizes |->
        regularSizesFrom(history, ascending(endpointsOf(history)), 1,
                         Ratio(0, 1)),
     problematicEndpoints |->
        ascending({e \in endpointsOf(history) : isProblematic(history, e)})]

\* part_008 line 213 and lines 344-347: as in the BandwidthMonitor, the
\* analyzer's Private is value-initialised and its q_ptr is never assigned, so
\* lines 340-342 emit nothing
protocolPatternSignals(d) ==
    IF q_ptr # "nullptr"
    THEN <<Signal("protocolPatternDetected", d, "")>> ELSE <<>>

\* everything the calls on the analyzer leave alone
anaUnchanged ==
    UNCHANGED <<now, clockSteps, dev, regVars, authVars, secVars, steadyNow,
                steadySteps, powerMgr, bwMonitor, lastMon, extVars>>

arrivedOf(d) ==
    IF d \in DOMAIN lastAna.arrived THEN lastAna.arrived[d] ELSE <<>>

\* part_008 lines 215-239
ProtocolAnalyzer_recordTransfer(d, endpointAddress, size, status) ==
    LET record == TransferRecord(Len(arrivedOf(d)) + 1, endpointAddress,
                                 size, status)
    IN
    /\ lastAna.calls < MaxAnalyzerCalls
    /\ analyzer' = recordTransferOutcome(analyzer, d, record)
    /\ lastAna' = [op |-> "recordTransfer", device |-> d,
                   pattern |-> NoPattern,
                   arrived |-> (d :> Append(arrivedOf(d), record))
                               @@ lastAna.arrived,
                   calls |-> lastAna.calls + 1]
    /\ signals' = <<>>
    /\ anaUnchanged

\* part_008 lines 443-454
ProtocolAnalyzer_setMaxHistorySize(size) ==
    /\ lastAna.calls < MaxAnalyzerCalls
    /\ analyzer' = setMaxHistorySizeOutcome(analyzer, size)
    /\ lastAna' = [lastAna EXCEPT !.op = "setMaxHistorySize",
                                  !.device = "none",
                                  !.pattern = NoPattern,
                                  !.calls = @ + 1]
    /\ signals' = <<>>
    /\ anaUnchanged

\* part_008 lines 273-343
ProtocolAnalyzer_analyzeTransferPatterns(d) ==
    /\ lastAna' = [lastAna EXCEPT
                      !.op = "analyzeTransferPatterns",
                      !.device = d,
                      !.pattern = IF historyOf(analyzer, d) = <<>>
                                  THEN NoPattern
                                  ELSE patternOf(d, historyOf(analyzer, d))]
    /\ signals' = IF historyOf(analyzer, d) = <<>>
                  THEN <<>> ELSE protocolPatternSignals(d)
    /\ UNCHANGED analyzer
    /\ anaUnchanged

\* the inputs of recordTransfer: endpoint address, data size, status
TransferInputs == {<<1, 0, 0>>, <<129, 8, 0>>, <<129, 8, -1>>}

\* the inputs of setMaxHistorySize
HistorySizes == {0, 1, DefaultMaxHistorySize}

\* a sequence of recordTransfer calls, each <<endpoint, size, status>>
arrivalsOf(calls) ==
    [i \in DOMAIN calls |->
        TransferRecord(i, calls[i][1], calls[i][2], calls[i][3])]

\* n transfers of 8 bytes on endpoint 0x81, the first failed of them failing
bulkIn(n, failed) ==
    [i \in 1..n |-> <<129, 8, IF i <= failed THEN -1 ELSE 0>>]

\* the calls that were made on the analyzer before the model starts to look
EarlierCalls ==
    {<<>>,
     bulkIn(DefaultMaxHistorySize - 1, 0),
     bulkIn(DefaultMaxHistorySize + 499, 0),
     bulkIn(100, 10),
     bulkIn(100, 11),
     bulkIn(10, 1) \o <<<<1, 8, -1>>>>,
     <<<<1, 0, 0>>, <<129, 100, 0>>>>,
     <<<<129, 9, 0>>, <<1, 8, 0>>>>,
     <<<<1, 8, 0>>, <<129, 10, 0>>>>,
     <<<<1, 8, 0>>, <<1, 9, 0>>, <<129, 9, 0>>, <<129, 10, 0>>>>,
     <<<<1, 0, 0>>, <<2, 5, 0>>, <<129, 7, 0>>>>,
     <<<<2, 0, 0>>, <<129, 0, 0>>>>}

\* the analyzer anl after the recordTransfer calls arrivals[lo..hi] for devA
RECURSIVE replayed(_, _, _, _)
replayed(anl, arrivals, lo, hi) ==
    IF lo > hi THEN anl
    ELSE IF lo = hi
         THEN recordTransferOutcome(anl, "devA", arrivals[lo])
         ELSE LET mid == (lo + hi) \div 2
              IN CHOOSE after \in
                    {replayed(half, arrivals, mid + 1, hi) :
                        half \in {replayed(anl, arrivals, lo, mid)}} : TRUE

(***************************************************************************)
(* DeviceAuthorizer with long histories                                    *)
(***************************************************************************)
\* bound on the authorizeDevice and revokeAuthorization calls of one
\* behaviour of SpecHistory
MaxAuthCalls == 2

\* part_010 lines 656-665 and 674-681: the results of a device that was
\* granted without a prompt and revoked again, n results in all
grantedAndRevoked(n) ==
    [i \in 1..n |->
        IF i % 2 = 1 THEN createResult(TRUE, "All checks passed", "Automatic")
        ELSE createResult(FALSE, "Authorization revoked", "Automatic")]

\* the numbers of results earlier calls have appended for devA
EarlierResults == {0, maxHistorySize - 1, maxHistorySize, maxHistorySize + 49}

\* a device state after the results[from..to] were recorded one by one
RECURSIVE recordedAll(_, _, _, _)
recordedAll(state, results, from, to) ==
    IF from > to THEN state
    ELSE IF from = to
         THEN Recorded([state EXCEPT !.lastAuthAttempt = now], results[from],
                       results[from].authorized)
         ELSE LET mid == (from + to) \div 2
              IN CHOOSE after \in
                    {recordedAll(half, results, mid + 1, to) :
                        half \in {recordedAll(state, results, from, mid)}} :
                    TRUE

\* everything the DeviceAuthorizer calls of SpecHistory leave alone
historyUnchanged ==
    UNCHANGED <<now, clockSteps, dev, regVars, telVars, secVars, logVars,
                cbVars, benchVars>>

\* part_010 lines 561-666
DeviceAuthorizer_authorizeDevice(d, answer, relock) ==
    /\ authMutex = "free"
    /\ authCalls < MaxAuthCalls
    /\ authorizerAuthorize(d, authorizeOutcome(d, answer, relock))
    /\ authCalls' = authCalls + 1
    /\ signals' = <<>>
    /\ historyUnchanged

\* part_010 lines 668-685
DeviceAuthorizer_revokeAuthorization(d) ==
    /\ authMutex = "free"
    /\ authCalls < MaxAuthCalls
    /\ deviceStates' = [deviceStates EXCEPT ![d] = revokeOutcome(d).state]
    /\ signals' = revokeOutcome(d).signals
    /\ lastAuth' = NoCall
    /\ authCalls' = authCalls + 1
    /\ UNCHANGED <<policy, trustedCertificates, customMethods, authMutex>>
    /\ historyUnchanged

(***************************************************************************)
(* SecurityManager with a long event log                                   *)
(***************************************************************************)
MaxSecCalls == 2

NoQuery == [asked |-> FALSE, start |-> Epoch, end |-> Epoch, result |-> <<>>]

\* the instants getSecurityEvents is asked about
QueryRanges ==
    {<<RuleExpiry + 1, RuleExpiry + 1>>, <<RuleExpiry, RuleExpiry + 2>>,
     <<RuleExpiry + 2, RuleExpiry + 1>>}

\* the sizes of the log the calls of SpecEvents start from
EarlierEvents == {0, maxEventHistory - 1, maxEventHistory}

\* SecurityManager.cpp lines 253-294 and 387-396 called in turn n times: the
\* log after n refusals of device d, the level set to Medium before the odd
\* ones and to High before the even ones, the first half of them one clock
\* unit before the second half
refusedEarlier(d, n) ==
    [i \in 1..n |->
        [event |-> "UnauthorizedAccess",
         timestamp |-> IF 2 * i <= n THEN now - 1 ELSE now,
         deviceId |-> eventDeviceId(d),
         description |-> "Device is not whitelisted",
         securityLevel |-> IF i % 2 = 1 THEN "Medium" ELSE "High"]]

eventsUnchanged ==
    /\ authUntouched
    /\ UNCHANGED <<now, clockSteps, dev, regVars, telVars, authCalls, cbVars,
                   benchVars>>

\* SecurityManager.cpp lines 253-294, with the events it logs (447-475)
Events_isDeviceAllowed(d) ==
    LET a == isDeviceAllowedOutcome(d) IN
    /\ secCalls < MaxSecCalls
    /\ events' = logAll(events, d, a.logged)
    /\ signals' = EventSignals(d, a.logged)
    /\ lastSec' = SecCall("isDeviceAllowed", d,
                          SecOutcome(TRUE, a.allowed,
                                     <<Stage("isDeviceAllowed", a.allowed)>>,
                                     a.logged, <<>>, FALSE, <<>>, a))
    /\ secCalls' = secCalls + 1
    /\ UNCHANGED <<rules, authorizedDevices, currentLevel, lastQuery>>
    /\ eventsUnchanged

\* SecurityManager.cpp lines 412-425
getSecurityEvents(evs, start, end) ==
    SelectSeq(evs, LAMBDA e : e.timestamp >= start /\ e.timestamp <= end)

SecurityManager_getSecurityEvents(start, end) ==
    /\ secCalls < MaxSecCalls
    /\ secCalls' = secCalls + 1
    /\ lastQuery' = [asked |-> TRUE, start |-> start, end |-> end,
                     result |-> getSecurityEvents(events, start, end)]
    /\ signals' = <<>>
    /\ lastSec' = NoSecCall
    /\ UNCHANGED <<rules, events, authorizedDevices, currentLevel>>
    /\ eventsUnchanged

(***************************************************************************)
(* Subscribers and callbacks that call back into the component            *)
(*                                                                         *)
(* A slot connected to a signal of an object on the same thread runs       *)
(* inside the emit; a custom authorization method runs inside              *)
(* authorizeDevice.  One that calls a locking member of the component      *)
(* locks the std::mutex again when the caller still holds it.              *)
(***************************************************************************)
Reentries == {"returns", "calls back"}

NoCallback ==
    [signal |-> "none", holds |-> "none", reentered |-> FALSE,
     returned |-> TRUE]

\* the subscriber of signal ran while the publisher held the mutex holds;
\* locking a std::mutex the thread owns either never returns or is granted
Callback(signal, holds, reentry, relock) ==
    [signal |-> signal, holds |-> holds, reentered |-> reentry = "calls back",
     returned |-> ~ (reentry = "calls back" /\ holds # "none"
                      /\ relock = "hang")]

callbacksUnchanged ==
    UNCHANGED <<now, clockSteps, dev, regVars, telVars, authCalls, logVars,
                benchVars>>

\* part_010 lines 668-685: deviceAuthorizationRevoked is emitted at line 683
\* inside the scope of the lock_guard of line 671
Callbacks_revokeAuthorization(d, reentry, relock) ==
    LET cb == Callback("deviceAuthorizationRevoked",
                       "DeviceAuthorizer::stateMutex", reentry, relock)
    IN
    /\ authMutex = "free"
    /\ Len(revokeOutcome(d).state.history) <= MaxHistory
    /\ deviceStates' = [deviceStates EXCEPT ![d] = revokeOutcome(d).state]
    /\ signals' = revokeOutcome(d).signals
    /\ lastCallback' = IF revokeOutcome(d).signals # <<>> THEN cb
                       ELSE NoCallback
    /\ authMutex' = IF revokeOutcome(d).signals # <<>> /\ ~cb.returned
                    THEN "stuck" ELSE "free"
    /\ lastAuth' = NoCall
    /\ UNCHANGED <<policy, trustedCertificates, customMethods, secMutex>>
    /\ UNCHANGED secVars
    /\ callbacksUnchanged

\* part_010 lines 698-702: policyChanged is emitted at line 701 inside the
\* scope of the lock_guard of line 699
Callbacks_setAuthorizationPolicy(p, reentry, relock) ==
    LET cb == Callback("policyChanged", "DeviceAuthorizer::stateMutex",
                       reentry, relock)
    IN
    /\ authMutex = "free"
    /\ policy' = p
    /\ signals' = <<PolicySignal>>
    /\ lastCallback' = cb
    /\ authMutex' = IF cb.returned THEN "free" ELSE "stuck"
    /\ lastAuth' = NoCall
    /\ UNCHANGED <<deviceStates, trustedCertificates, customMethods, secMutex>>
    /\ UNCHANGED secVars
    /\ callbacksUnchanged

\* part_010 lines 561-666: the custom method is called at line 636 inside
\* the scope of the lock_guard of line 566; a call that blocks there has
\* reset the state (575-576) and recorded nothing
customMethodOutcome(d, answer, reentry, relock) ==
    LET out == authorizeOutcome(d, answer, relock)
        cb  == Callback("customMethod", "DeviceAuthorizer::stateMutex",
                        reentry, relock)
    IN
    IF "custom" \in Range(out.steps) /\ ~cb.returned
    THEN Hung([deviceStates[d] EXCEPT !.isAuthorized = FALSE,
                                      !.lastAuthAttempt = now],
              SubSeq(out.steps, 1,
                     CHOOSE i \in 1..Len(out.steps) : out.steps[i] = "custom"))
    ELSE out

Callbacks_authorizeDevice(d, answer, reentry, relock) ==
    LET out == customMethodOutcome(d, answer, reentry, relock) IN
    /\ authMutex = "free"
    /\ Len(out.state.history) <= MaxHistory
    /\ authorizerAuthorize(d, out)
    /\ signals' = <<>>
    /\ lastCallback' = IF "custom" \in Range(out.steps)
                       THEN Callback("customMethod",
                                     "DeviceAuthorizer::stateMutex",
                                     reentry, relock)
                       ELSE NoCallback
    /\ UNCHANGED secMutex
    /\ UNCHANGED secVars
    /\ callbacksUnchanged

\* SecurityManager.cpp lines 345-360: configurationChanged is emitted at
\* line 359 inside the scope of the lock_guard of line 346
Callbacks_addSecurityRule(rule, reentry, relock) ==
    LET cb == Callback("configurationChanged", "SecurityManager::stateMutex",
                       reentry, relock)
    IN
    /\ secMutex = "free"
    /\ rules' = Append(SelectSeq(rules, LAMBDA e :
                           ~sameDevice(e, rule.vendorId, rule.productId)),
                       rule)
    /\ signals' = <<ConfigSignal>>
    /\ lastCallback' = cb
    /\ secMutex' = IF cb.returned THEN "free" ELSE "stuck"
    /\ lastSec' = NoSecCall
    /\ authUntouched
    /\ UNCHANGED <<events, authorizedDevices, currentLevel>>
    /\ callbacksUnchanged

\* SecurityManager.cpp lines 253-294 with 447-475: securityEventOccurred is
\* emitted at line 474, after the block of the lock_guard of line 467
Callbacks_isDeviceAllowed(d, reentry, relock) ==
    LET a == isDeviceAllowedOutcome(d) IN
    /\ secMutex = "free"
    /\ Len(logAll(events, d, a.logged)) <= MaxEvents
    /\ events' = logAll(events, d, a.logged)
    /\ signals' = EventSignals(d, a.logged)
    /\ lastSec' = SecCall("isDeviceAllowed", d,
                          SecOutcome(TRUE, a.allowed,
                                     <<Stage("isDeviceAllowed", a.allowed)>>,
                                     a.logged, <<>>, FALSE, <<>>, a))
    /\ lastCallback' = IF a.logged # <<>>
                       THEN Callback("securityEventOccurred", "none",
                                     reentry, relock)
                       ELSE NoCallback
    /\ authUntouched
    /\ UNCHANGED <<rules, authorizedDevices, currentLevel, secMutex>>
    /\ callbacksUnchanged

(***************************************************************************)
(* BenchmarkTool                                                           *)
(*                                                                         *)
(* startBenchmark creates a thread and detaches it; the thread runs the    *)
(* throughput, the latency and the stress test in turn, each a loop of     *)
(* transfers that goes on while running is set and its time is not up.     *)
(***************************************************************************)
MaxWorkers == 2
MaxTransfers == 2

Tests == <<"throughput", "latency", "stress">>

NoBenchCall == [op |-> "none", result |-> FALSE, active |-> 0]

\* a thread of the tool: the test it is in (4: it has ended), the transfers
\* it has issued, whether stopBenchmark was called since it started and the
\* transfers it has issued since then
Worker(endpoints) ==
    [test |-> 1, endpoints |-> endpoints, transfers |-> 0, stopped |-> FALSE,
     afterStop |-> 0]

active == {w \in 1..Len(workers) : workers[w].test <= Len(Tests)}

benchUnchanged ==
    UNCHANGED <<now, clockSteps, dev, regVars, telVars, authVars, secVars,
                authCalls, logVars, cbVars>>

\* part_010 lines 207-236: endpoints tells whether the device has the bulk
\* and interrupt endpoints the tests look for
BenchmarkTool_startBenchmark(isOpen, endpoints) ==
    /\ Len(workers) < MaxWorkers
    /\ IF running \/ ~isOpen
       THEN /\ lastBench' = [op |-> "startBenchmark", result |-> FALSE,
                             active |-> Cardinality(active)]
            /\ UNCHANGED <<running, workers>>
       ELSE /\ running' = TRUE
            /\ workers' = Append(workers, Worker(endpoints))
            /\ lastBench' = [op |-> "startBenchmark", result |-> TRUE,
                             active |-> Cardinality(active)]
    /\ signals' = <<>>
    /\ benchUnchanged

\* part_010 lines 238-243: the thread was detached at line 234, so joinable()
\* is false and the call returns without waiting for it
BenchmarkTool_stopBenchmark ==
    /\ running' = FALSE
    /\ workers' = [w \in 1..Len(workers) |->
                     [workers[w] EXCEPT !.stopped = TRUE]]
    /\ lastBench' = [op |-> "stopBenchmark", result |-> TRUE,
                     active |-> Cardinality(active)]
    /\ signals' = <<>>
    /\ benchUnchanged

\* part_010 lines 297-318, 347-355 and 403-417: one pass of the loop of the
\* test the thread is in, while running is set: a transfer and a progress
\* signal; a test without its endpoints makes no transfer
Worker_transfer(w) ==
    /\ w \in active
    /\ running
    /\ workers[w].endpoints
    /\ workers[w].transfers < MaxTransfers
    /\ workers' = [workers EXCEPT
                     ![w].transfers = @ + 1,
                     ![w].afterStop = IF workers[w].stopped THEN @ + 1 ELSE @]
    /\ signals' = <<Signal("benchmarkProgress", "", Tests[workers[w].test])>>
    /\ lastBench' = NoBenchCall
    /\ UNCHANGED running
    /\ benchUnchanged

\* the thread leaves the test it is in: running is clear at the head of the
\* test or of its loop, or the time of the loop is up; after the stress test
\* the thread clears running and emits benchmarkComplete (lines 229-231)
Worker_leave(w) ==
    /\ w \in active
    /\ workers' = [workers EXCEPT ![w].test = @ + 1]
    /\ running' = IF workers[w].test = Len(Tests) THEN FALSE ELSE running
    /\ signals' =
          IF workers[w].test = Len(Tests)
          THEN <<Signal("benchmarkComplete", "", "")>>
          ELSE IF workers[w].test = 1 /\ ~workers[w].endpoints /\ running
          THEN <<Signal("benchmarkError", "",
                        "No suitable bulk endpoints found")>>
          ELSE <<>>
    /\ lastBench' = NoBenchCall
    /\ benchUnchanged

(***************************************************************************)
(* Specifications                                                          *)
(***************************************************************************)
vars == <<envVars, signals, authVars, secVars>>

InitExt ==
    /\ authCalls = 0
    /\ secCalls = 0
    /\ lastQuery = NoQuery
    /\ secMutex = "free"
    /\ lastCallback = NoCallback
    /\ running = FALSE
    /\ workers = <<>>
    /\ lastBench = NoBenchCall

\* the monitors and the analyzer after construction
InitTelemetry ==
    /\ steadyNow = 0
    /\ steadySteps = 0
    /\ powerMgr = NoMonitoring
    /\ bwMonitor = NoMonitoring
    /\ lastMon = NoMonCall
    /\ analyzer = NoAnalyzer
    /\ lastAna = NoAnaCall
    /\ InitExt

InitRegistry ==
    /\ phase = "constructor"
    /\ attached = {}
    /\ plugs = [k \in Keys |-> 0]
    /\ devices = NoObjects
    /\ objects = <<>>
    /\ powerTimers = NoObjects
    /\ bwTimers = NoObjects
    /\ powerStats = {}
    /\ bwStats = {}
    /\ devicesMutex = "free"
    /\ thread = [t \in Threads |-> Idle("")]
    /\ addedCount = [k \in Keys |-> 0]
    /\ removedCount = [k \in Keys |-> 0]

InitAuthorizer ==
    /\ policy = ConstructorPolicy
    /\ deviceStates = [d \in Devs |-> DeviceAuthState]
    /\ trustedCertificates = <<>>
    /\ customMethods = [k \in {} |-> "deny"]
    /\ authMutex = "free"
    /\ lastAuth = NoCall

InitSecurity ==
    /\ rules = <<>>
    /\ events = <<>>
    /\ authorizedDevices = EmptyMap
    /\ currentLevel = "Medium"
    /\ lastSec = NoSecCall

InitClock ==
    /\ now = RuleExpiry + 1
    /\ clockSteps = 0
    /\ signals = <<>>

\* the DeviceAuthorizer on its own
InitAuth ==
    /\ InitClock
    /\ dev \in {[devA |-> p, devB |-> Modem] : p \in AuthProfiles}
    /\ InitAuthorizer
    /\ InitSecurity
    /\ InitRegistry
    /\ InitTelemetry

NextAuth ==
    \/ \E d \in AuthDevs, answer \in Answers, relock \in Relocks :
          authorizeDevice(d, answer, relock)
    \/ \E d \in AuthDevs : revokeAuthorization(d)
    \/ \E p \in PolicyInputs : setAuthorizationPolicy(p)
    \/ \E valid \in Booleans : addTrustedCertificate("cert.pem", valid)
    \/ removeTrustedCertificate("cert.pem")
    \/ \E d \in AuthDevs, m \in Verdicts :
          registerCustomAuthorizationMethod(deviceKey(d), m)
    \/ \E d \in AuthDevs : clearAuthorizationHistory(d)
    \/ \E delta \in ClockDeltas : AdvanceClock(delta)

SpecAuth == InitAuth /\ [][NextAuth]_vars

\* the SecurityManager with the DeviceAuthorizer it owns
InitSec ==
    /\ InitClock
    /\ dev \in SecScenarios
    /\ InitAuthorizer
    /\ InitSecurity
    /\ InitRegistry
    /\ InitTelemetry

NextSec ==
    \/ \E d \in AuthDevs, answer \in Answers, relock \in Relocks :
          SecurityManager_authorizeDevice(d, answer, relock)
    \/ \E d \in Devs : SecurityManager_isDeviceAllowed(d)
    \/ \E d \in AuthDevs : SecurityManager_revokeAuthorization(d)
    \/ \E r \in RuleInputs : addSecurityRule(r)
    \/ removeSecurityRule(VendorA, ProductA)
    \/ clearSecurityRules
    \/ \E level \in PresetLevels : setSecurityLevel(level)
    \/ clearSecurityEvents
    \/ \E c \in ConfigInputs : loadSecurityConfig(c)

SpecSec == InitSec /\ [][NextSec]_vars

\* the configuration operations of the SecurityManager: levels and rules
NextConf ==
    \/ \E level \in SecurityLevels : setSecurityLevel(level)
    \/ \E r \in ConfRuleInputs : addSecurityRule(r)
    \/ \E r \in ConfRuleInputs : removeSecurityRule(r.vendorId, r.productId)
    \/ clearSecurityRules
    \/ \E c \in ConfigInputs : loadSecurityConfig(c)

SpecConf == InitSec /\ [][NextConf]_vars

\* the protocol validation of the SecurityManager on its own
InitProto ==
    /\ InitClock
    /\ dev \in ProtoScenarios
    /\ InitAuthorizer
    /\ InitSecurity
    /\ InitRegistry
    /\ InitTelemetry

NextProto ==
    \/ \E d \in Devs : validateDeviceProtocol(d)
    \/ clearSecurityEvents

SpecProto == InitProto /\ [][NextProto]_vars

\* the PowerManager and the BandwidthMonitor on their own
InitMon ==
    /\ InitClock
    /\ dev \in MonScenarios
    /\ InitAuthorizer
    /\ InitSecurity
    /\ InitRegistry
    /\ InitTelemetry

NextMon ==
    \/ \E delta \in SteadyDeltas : AdvanceSteady(delta)
    \/ \E d \in Devs, native \in NativeReplies :
          PowerManager_startMonitoring(d, native)
    \/ \E d \in Devs : PowerManager_stopMonitoring(d)
    \/ \E d \in Devs, native \in NativeReplies : PowerManager_timeout(d, native)
    \/ \E d \in Devs : BandwidthMonitor_startMonitoring(d)
    \/ \E d \in Devs : BandwidthMonitor_stopMonitoring(d)
    \/ \E d \in Devs, configOk \in Booleans :
          BandwidthMonitor_timeout(d, configOk)

SpecMon == InitMon /\ [][NextMon]_vars

\* the ProtocolAnalyzer on its own
InitAna ==
    /\ InitClock
    /\ dev = [devA |-> Dock, devB |-> Mouse]
    /\ InitAuthorizer
    /\ InitSecurity
    /\ InitRegistry
    /\ steadyNow = 0
    /\ steadySteps = 0
    /\ powerMgr = NoMonitoring
    /\ bwMonitor = NoMonitoring
    /\ lastMon = NoMonCall
    /\ InitExt
    /\ \E calls \in EarlierCalls :
          /\ analyzer = replayed(NoAnalyzer, arrivalsOf(calls), 1, Len(calls))
          /\ lastAna = [NoAnaCall EXCEPT
                           !.arrived = IF calls = <<>> THEN @
                                       ELSE "devA" :> arrivalsOf(calls)]

NextAna ==
    \/ \E d \in Devs, t \in TransferInputs :
          ProtocolAnalyzer_recordTransfer(d, t[1], t[2], t[3])
    \/ \E size \in HistorySizes : ProtocolAnalyzer_setMaxHistorySize(size)
    \/ \E d \in Devs : ProtocolAnalyzer_analyzeTransferPatterns(d)

SpecAna == InitAna /\ [][NextAna]_vars

\* the DeviceAuthorizer after many calls
InitHistory ==
    /\ InitClock
    /\ dev \in {[devA |-> p, devB |-> Modem] : p \in {Keyboard, Gadget}}
    /\ policy \in {ConstructorPolicy, levelPolicy("Low"), levelPolicy("High")}
    /\ \E n \in EarlierResults :
          deviceStates =
             [d \in Devs |->
                IF d = "devA"
                THEN recordedAll(DeviceAuthState, grantedAndRevoked(n), 1, n)
                ELSE DeviceAuthState]
    /\ trustedCertificates = <<>>
    /\ customMethods = [k \in {} |-> "deny"]
    /\ authMutex = "free"
    /\ lastAuth = NoCall
    /\ InitSecurity
    /\ InitRegistry
    /\ InitTelemetry

NextHistory ==
    \/ \E d \in Devs, answer \in Answers, relock \in Relocks :
          DeviceAuthorizer_authorizeDevice(d, answer, relock)
    \/ \E d \in Devs : DeviceAuthorizer_revokeAuthorization(d)
    \/ \E delta \in ClockDeltas : AdvanceClock(delta)

SpecHistory == InitHistory /\ [][NextHistory]_vars

\* the SecurityManager after many refused devices
InitEvents ==
    /\ InitClock
    /\ dev = [devA |-> Keyboard, devB |-> Clone]
    /\ InitAuthorizer
    /\ rules = <<>>
    /\ \E n \in EarlierEvents : events = refusedEarlier("devA", n)
    /\ authorizedDevices = EmptyMap
    /\ currentLevel = "Medium"
    /\ lastSec = NoSecCall
    /\ InitRegistry
    /\ InitTelemetry

NextEvents ==
    \/ \E d \in AuthDevs : Events_isDeviceAllowed(d)
    \/ \E range \in QueryRanges :
          SecurityManager_getSecurityEvents(range[1], range[2])
    \/ setSecurityLevel("Low")
    \/ clearSecurityEvents
    \/ AdvanceClock(1)

SpecEvents == InitEvents /\ [][NextEvents]_vars

\* the DeviceAuthorizer and the SecurityManager with subscribers
NextCallbacks ==
    \/ \E d \in AuthDevs, reentry \in Reentries, relock \in Relocks :
          Callbacks_revokeAuthorization(d, reentry, relock)
    \/ \E level \in {"Low", "Medium"}, reentry \in Reentries,
          relock \in Relocks :
          Callbacks_setAuthorizationPolicy(levelPolicy(level), reentry, relock)
    \/ \E d \in AuthDevs, answer \in Answers, reentry \in Reentries,
          relock \in Relocks :
          Callbacks_authorizeDevice(d, answer, reentry, relock)
    \/ \E reentry \in Reentries, relock \in Relocks :
          Callbacks_addSecurityRule(Rule(VendorA, ProductA, TRUE, <<>>, Epoch),
                                    reentry, relock)
    \/ \E d \in AuthDevs, reentry \in Reentries, relock \in Relocks :
          Callbacks_isDeviceAllowed(d, reentry, relock)
    \/ \E d \in AuthDevs, m \in Verdicts :
          registerCustomAuthorizationMethod(deviceKey(d), m)

SpecCallbacks == InitSec /\ [][NextCallbacks]_vars

InitTeardown ==
    /\ InitClock
    /\ dev = [devA |-> Keyboard, devB |-> Modem]
    /\ InitAuthorizer
    /\ InitSecurity
    /\ InitRegistry
    /\ InitTelemetry

\* the SecurityManager and its DeviceAuthorizer while authorizations expire,
\* after addSecurityRule has whitelisted the device
InitRevoke ==
    /\ InitClock
    /\ dev \in {[devA |-> p, devB |-> Clone] : p \in {Keyboard, Gadget}}
    /\ InitAuthorizer
    /\ rules = <<Rule(VendorA, ProductA, TRUE, <<>>, Epoch)>>
    /\ events = <<>>
    /\ authorizedDevices = EmptyMap
    /\ currentLevel = "Medium"
    /\ lastSec = NoSecCall
    /\ InitRegistry
    /\ InitTelemetry

NextRevoke ==
    \/ \E d \in AuthDevs, answer \in Answers, relock \in Relocks :
          SecurityManager_authorizeDevice(d, answer, relock)
    \/ \E d \in AuthDevs, answer \in Answers, relock \in Relocks :
          DeviceAuthorizer_authorizeDevice(d, answer, relock)
    \/ \E d \in AuthDevs : SecurityManager_revokeAuthorization(d)
    \/ setSecurityLevel("High")
    \/ \E d \in AuthDevs : clearAuthorizationHistory(d)
    \/ clearSecurityEvents
    \/ \E delta \in ClockDeltas : AdvanceClock(delta)

SpecRevoke == InitRevoke /\ [][NextRevoke]_vars

\* the BenchmarkTool and the threads it starts
NextBench ==
    \/ \E isOpen \in Booleans, endpoints \in Booleans :
          BenchmarkTool_startBenchmark(isOpen, endpoints)
    \/ BenchmarkTool_stopBenchmark
    \/ \E w \in 1..MaxWorkers : Worker_transfer(w)
    \/ \E w \in 1..MaxWorkers : Worker_leave(w)

SpecBench == InitTeardown /\ [][NextBench]_vars

\* the DeviceManager from construction to destruction, notified of every
\* arrival and removal
NextTeardown ==
    \/ \E n \in NativeDevices : Plug(n)
    \/ \E n \in NativeDevices : Unplug(n)
    \/ DeviceManager_constructed
    \/ \E t \in Threads, n \in NativeDevices, e \in {"arrived", "left"} :
          hotplugCallback(t, n, e)
    \/ \E t \in Threads, relock \in Relocks :
          handleDeviceArrival_check(t, relock)
    \/ \E t \in Threads, nullCall \in NullCalls :
          handleDeviceArrival_create(t, nullCall)
    \/ \E t \in Threads : handleDeviceArrival_insert(t)
    \/ \E t \in Threads : handleDeviceArrival_emit(t)
    \/ \E t \in Threads, relock \in Relocks :
          handleDeviceRemoval_erase(t, relock)
    \/ \E t \in Threads, nullCall \in NullCalls :
          handleDeviceRemoval_stop(t, nullCall)
    \/ \E t \in Threads : handleDeviceRemoval_emit(t)
    \/ DeviceManager_destructor
    \/ DeviceManager_destroyed

SpecTeardown == InitTeardown /\ [][NextTeardown]_vars

\* the DeviceManager with its monitors
InitReg ==
    /\ InitClock
    /\ dev = [devA |-> Keyboard, devB |-> Modem]
    /\ InitAuthorizer
    /\ InitSecurity
    /\ InitRegistry
    /\ InitTelemetry

NextReg ==
    \/ \E n \in NativeDevices : Plug(n)
    \/ \E n \in NativeDevices : Unplug(n)
    \/ DeviceManager_constructed
    \/ DeviceManager_initFailed
    \/ \E t \in Threads, n \in NativeDevices, e \in {"arrived", "left"} :
          hotplugCallback(t, n, e)
    \/ \E t \in Threads, relock \in Relocks :
          handleDeviceArrival_check(t, relock)
    \/ \E t \in Threads, nullCall \in NullCalls :
          handleDeviceArrival_create(t, nullCall)
    \/ \E t \in Threads : handleDeviceArrival_insert(t)
    \/ \E t \in Threads : handleDeviceArrival_emit(t)
    \/ \E t \in Threads, relock \in Relocks :
          handleDeviceRemoval_erase(t, relock)
    \/ \E t \in Threads, nullCall \in NullCalls :
          handleDeviceRemoval_stop(t, nullCall)
    \/ \E t \in Threads : handleDeviceRemoval_emit(t)
    \/ \E listed \in Booleans : pollDevices(listed)
    \/ pollDevices_snapshot
    \/ pollDevices_scan
    \/ pollDevices_sweep
    \/ \E o \in DOMAIN objects : UsbDevice_open(o)
    \/ \E o \in DOMAIN objects : updateDevicePower(o)
    \/ updateDevicePower_publish
    \/ \E o \in DOMAIN objects : updateDeviceBandwidth(o)
    \/ updateDeviceBandwidth_publish

SpecReg == InitReg /\ [][NextReg]_vars

(***************************************************************************)
(* Properties                                                              *)
(***************************************************************************)

\* C1: delivering an arrival for a device key that is already in the
\* registry is a no-op, in SpecReg: the handler returns at its check and
\* leaves the map, the objects, the monitors and the deviceAdded count as
\* they were; and as long as arrivals are only delivered one after the other
\* (during construction) a key has at most one object, one deviceAdded
\* signal and one set of monitors, however often its arrival is delivered.
C1_ArrivalIdempotent ==
    /\ [](phase = "constructor" =>
            \A k \in Keys :
              LET made == {o \in DOMAIN objects : objects[o].key = k} IN
              /\ addedCount[k] <= 1
              /\ Cardinality(made) <= 1
              /\ Cardinality(made \cap DOMAIN powerTimers) <= 1
              /\ Cardinality(made \cap DOMAIN bwTimers) <= 1
              /\ (k \in DOMAIN devices /\ thread["loop"].op = "idle")
                     => addedCount[k] = 1 /\ Cardinality(made) = 1)
    /\ [][\A t \in Threads :
            (/\ thread[t].op = "arrival"
             /\ thread[t].step = "check"
             /\ thread[t].key \in DOMAIN devices
             /\ thread'[t] # thread[t])
            => /\ thread'[t].op # "arrival"
               /\ devices' = devices
               /\ objects' = objects
               /\ powerTimers' = powerTimers
               /\ bwTimers' = bwTimers
               /\ addedCount' = addedCount]_vars

\* C1: the arrival of a key was delivered again while it was in the registry,
\* and there is one object and one deviceAdded signal for it
C1_Witness ==
    \E t \in Threads :
       /\ thread[t].op = "idle"
       /\ thread[t].step = "present"
       /\ \E k \in DOMAIN devices :
            /\ addedCount[k] = 1
            /\ Cardinality({o \in DOMAIN objects : objects[o].key = k}) = 1

\* C2: under every interleaving of notifications and polls, in SpecReg, a key
\* gets at most one object and one deviceAdded signal for each time it was
\* plugged in, no more deviceRemoved signals than deviceAdded signals, and at
\* most one object of a key is being monitored at any time.
C2_NoDoubleAdd ==
    \A k \in Keys :
       LET made == {o \in DOMAIN objects : objects[o].key = k} IN
       /\ Cardinality(made) <= plugs[k]
       /\ addedCount[k] <= plugs[k]
       /\ removedCount[k] <= addedCount[k]
       /\ Cardinality({o \in made : o \in DOMAIN powerTimers}) <= 1

\* C3: once handleDeviceRemoval has emitted deviceRemoved for an object, in
\* SpecReg, no power or bandwidth tick publishes statistics for it.
C3_NoTickAfterRemoval ==
    \A i \in DOMAIN signals :
       signals[i].signal \in {"powerStatsUpdated", "statsUpdated"}
       => \A o \in DOMAIN objects :
             ToString(o) = signals[i].text => ~objects[o].removed

\* C4 as stated: at level High the policy is {false, true, true, true, 15 s},
\* and every authorizeDevice call on a vendor specific device under it, in
\* SpecSec, is denied with "System policy violation" before the certificate
\* check, the custom method and the prompt.
C4_HighDeniesVendorClass ==
    (currentLevel = "High" /\ authMutex = "free")
    => /\ policy = AuthorizationPolicy(FALSE, TRUE, TRUE, TRUE, 15)
       /\ (lastAuth.dev # "none" /\ dev[lastAuth.dev].deviceClass = 255)
          => /\ lastAuth.returned
             /\ ~lastAuth.result.authorized
             /\ lastAuth.result.reason = "System policy violation"
             /\ \A i \in DOMAIN lastAuth.steps :
                   lastAuth.steps[i] \notin {"certificate", "custom", "prompt"}

\* C4 amended: the same for the calls on a device that does not hold an
\* authorization younger than 24 hours.
C4_HighDeniesUncachedVendorClass ==
    (currentLevel = "High" /\ authMutex = "free")
    => /\ policy = AuthorizationPolicy(FALSE, TRUE, TRUE, TRUE, 15)
       /\ (/\ lastAuth.dev # "none"
           /\ dev[lastAuth.dev].deviceClass = 255
           /\ ~ (/\ lastAuth.pre.isAuthorized
                 /\ now - lastAuth.pre.lastAuthAttempt < 24 * UnitsPerHour))
          => /\ lastAuth.returned
             /\ ~lastAuth.result.authorized
             /\ lastAuth.result.reason = "System policy violation"
             /\ ~deviceStates[lastAuth.dev].isAuthorized
             /\ \A i \in DOMAIN lastAuth.steps :
                   lastAuth.steps[i] \notin {"certificate", "custom", "prompt"}

\* C4: a vendor specific device without a cached authorization was denied at
\* level High
C4_Witness ==
    /\ currentLevel = "High"
    /\ policy = AuthorizationPolicy(FALSE, TRUE, TRUE, TRUE, 15)
    /\ lastAuth.dev # "none"
    /\ dev[lastAuth.dev].deviceClass = 255
    /\ ~lastAuth.pre.isAuthorized
    /\ lastAuth.result.reason = "System policy violation"

\* C5: in SpecAuth, authorizeDevice on a device authorized less than 24 hours
\* ago returns "Already authorized", runs no check and leaves the device's
\* state alone; 24 hours or more after the last attempt it stamps the attempt
\* with the current time, runs the checks again and leaves the device
\* authorized only if they grant it.
C5_CachedFor24Hours ==
    (lastAuth.dev # "none" /\ lastAuth.pre.isAuthorized)
    => IF now - lastAuth.pre.lastAuthAttempt < 24 * UnitsPerHour
       THEN /\ lastAuth.returned
            /\ lastAuth.result.authorized
            /\ lastAuth.result.reason = "Already authorized"
            /\ lastAuth.steps = <<"cached">>
            /\ deviceStates[lastAuth.dev] = lastAuth.pre
       ELSE /\ lastAuth.result.reason # "Already authorized"
            /\ Len(lastAuth.steps) > 1 \/ lastAuth.returned
            /\ deviceStates[lastAuth.dev].lastAuthAttempt = now
            /\ deviceStates[lastAuth.dev].isAuthorized
                   = (lastAuth.returned /\ lastAuth.result.authorized)
            /\ lastAuth.returned =>
                  /\ Len(deviceStates[lastAuth.dev].history) > 0
                  /\ deviceStates[lastAuth.dev].history[
                         Len(deviceStates[lastAuth.dev].history)]
                       = lastAuth.result

\* C5: a device authorized exactly 24 hours earlier was evaluated again
C5_Witness ==
    /\ lastAuth.dev # "none"
    /\ lastAuth.pre.isAuthorized
    /\ now - lastAuth.pre.lastAuthAttempt = 24 * UnitsPerHour
    /\ lastAuth.returned
    /\ lastAuth.result.reason # "Already authorized"
    /\ deviceStates[lastAuth.dev].lastAuthAttempt = now

\* C6: in SpecSec, SecurityManager::authorizeDevice invokes the authorizer
\* only for a device that isDeviceAllowed allows (by the cache or by its rule)
\* and whose protocol validation passes; a call that returns false emits
\* deviceBlocked and leaves the cache of authorized keys as it was; the call
\* returns true exactly when the authorizer granted the device, and only
\* then is the device's vendor:product key set in the cache.
C6_AuthorizeStages ==
    lastSec.op = "authorizeDevice"
    => LET d       == lastSec.dev
           key     == ToString(dev[d].vendorId) \o ":" \o ToString(dev[d].productId)
           engine  == lastAuth.dev # "none"
           granted == engine /\ lastAuth.returned /\ lastAuth.result.authorized
       IN
       /\ engine =>
            /\ lastAuth.dev = d
            /\ \/ key \in DOMAIN lastSec.cacheBefore /\ lastSec.cacheBefore[key]
               \/ /\ findMatchingRule(d).isWhitelisted
                  /\ validateDeviceInterfaces(d, findMatchingRule(d))
                  /\ ~ruleExpired(findMatchingRule(d))
            /\ validateDeviceProtocolOutcome(d).valid
            /\ lastSec.stages[1] = Stage("isDeviceAllowed", TRUE)
            /\ lastSec.stages[2] = Stage("validateDeviceProtocol", TRUE)
       /\ (lastSec.returned /\ lastSec.result) <=> granted
       /\ (lastSec.returned /\ ~lastSec.result) =>
            /\ \E i \in DOMAIN signals :
                  signals[i].signal = "deviceBlocked" /\ signals[i].dev = d
            /\ authorizedDevices = lastSec.cacheBefore
       /\ granted =>
            /\ authorizedDevices = (key :> TRUE) @@ lastSec.cacheBefore
            /\ \A i \in DOMAIN signals : signals[i].signal # "deviceBlocked"
       /\ ~granted => authorizedDevices = lastSec.cacheBefore

\* C6: a device went through all three stages and its key entered the cache
C6_Witness ==
    /\ lastSec.op = "authorizeDevice"
    /\ lastSec.returned /\ lastSec.result
    /\ Len(lastSec.stages) = 3
    /\ lastSec.cacheBefore = EmptyMap
    /\ DOMAIN authorizedDevices # {}

\* C7: in SpecSec, when the device's key is not in the cache, isDeviceAllowed
\* allows the device only if the first rule matching its vendor and product
\* exists, is whitelisted, lists no interfaces or lists every interface class
\* the device declares, and has not expired; and every denial appends a
\* security event about the device to the log.
C7_RuleDecides ==
    (lastSec.op \in {"isDeviceAllowed", "authorizeDevice"} /\ ~lastSec.cacheHit)
    => LET d == lastSec.dev
           allowed == lastSec.stages[1].passed
           matching == {i \in DOMAIN rules :
                           /\ rules[i].vendorId = dev[d].vendorId
                           /\ rules[i].productId = dev[d].productId}
           declared == {dev[d].config.interface[i].altsetting[j].bInterfaceClass :
                           i \in 1..dev[d].config.bNumInterfaces, j \in {1}}
       IN
       /\ lastSec.stages[1].stage = "isDeviceAllowed"
       /\ allowed <=>
            /\ matching # {}
            /\ LET rule == rules[CHOOSE i \in matching :
                                    \A j \in matching : i <= j] IN
               /\ rule.isWhitelisted
               /\ \/ rule.allowedInterfaces = <<>>
                  \/ \A c \in declared :
                        \E n \in DOMAIN rule.allowedInterfaces :
                           rule.allowedInterfaces[n] = interfaceId(c)
               /\ rule.expiryDate = 0 \/ now <= rule.expiryDate
       /\ ~allowed =>
            /\ Len(lastSec.logged) = 1
            /\ events # <<>>
            /\ events[Len(events)].event = lastSec.logged[1].event
            /\ events[Len(events)].description = lastSec.logged[1].description
            /\ events[Len(events)].event
                   \in {"UnauthorizedAccess", "PolicyViolation"}
            /\ events[Len(events)].deviceId = eventDeviceId(d)
            /\ \E i \in DOMAIN signals :
                  signals[i].signal = "securityEventOccurred"

\* C7: a device was denied because its whitelisted rule has expired
C7_Witness ==
    /\ lastSec.op = "isDeviceAllowed"
    /\ ~lastSec.cacheHit
    /\ ~lastSec.result
    /\ findMatchingRule(lastSec.dev).isWhitelisted
    /\ events # <<>>
    /\ events[Len(events)].description = "Security rule has expired"

\* C8 as stated: in SpecSec, whenever the first rule matching a device is
\* whitelisted and lists interfaces and the device declares an interface
\* class that is not listed, isDeviceAllowed denies the device and logs a
\* PolicyViolation event.
C8_UnlistedInterfaceDenied ==
    lastSec.op \in {"isDeviceAllowed", "authorizeDevice"}
    => LET d == lastSec.dev
           rule == findMatchingRule(d)
           declared == {dev[d].config.interface[i].altsetting[j].bInterfaceClass :
                           i \in 1..dev[d].config.bNumInterfaces, j \in {1}}
       IN
       (/\ rule.isWhitelisted
        /\ rule.allowedInterfaces # <<>>
        /\ \E c \in declared : \A n \in DOMAIN rule.allowedInterfaces :
               rule.allowedInterfaces[n] # interfaceId(c))
       => /\ ~lastSec.stages[1].passed
          /\ events # <<>>
          /\ events[Len(events)].event = "PolicyViolation"

\* C8 amended: the same when the device's vendor:product key is not in the
\* cache of authorized keys; the event names the unauthorized interfaces.
C8_UnlistedInterfaceDeniedOnMiss ==
    (lastSec.op \in {"isDeviceAllowed", "authorizeDevice"} /\ ~lastSec.cacheHit)
    => LET d == lastSec.dev
           rule == findMatchingRule(d)
           declared == {dev[d].config.interface[i].altsetting[j].bInterfaceClass :
                           i \in 1..dev[d].config.bNumInterfaces, j \in {1}}
       IN
       (/\ rule.isWhitelisted
        /\ rule.allowedInterfaces # <<>>
        /\ \E c \in declared : \A n \in DOMAIN rule.allowedInterfaces :
               rule.allowedInterfaces[n] # interfaceId(c))
       => /\ ~lastSec.stages[1].passed
          /\ lastSec.returned /\ ~lastSec.result
          /\ events # <<>>
          /\ events[Len(events)].event = "PolicyViolation"
          /\ events[Len(events)].description
                = "Device uses unauthorized interfaces"
          /\ events[Len(events)].deviceId = eventDeviceId(d)

\* C8: a device with a mass storage interface was denied under a rule that
\* lists "0x03" only
C8_Witness ==
    /\ lastSec.op = "isDeviceAllowed"
    /\ ~lastSec.cacheHit
    /\ ~lastSec.result
    /\ findMatchingRule(lastSec.dev).allowedInterfaces = <<"0x03">>
    /\ dev[lastSec.dev].config.bNumInterfaces = 2
    /\ dev[lastSec.dev].config.interface[2].altsetting[1].bInterfaceClass = 8
    /\ events # <<>>
    /\ events[Len(events)].event = "PolicyViolation"

\* C9: in SpecAuth, an authorizeDevice call that is not answered from the
\* cache, under a policy with autoAuthorizeKnownDevices, on a device of class
\* HID, Hub, Printer or MassStorage authorizes the device with "Known device
\* type" and runs none of the later checks.
C9_KnownTypeShortCircuits ==
    (/\ lastAuth.dev # "none"
     /\ ~ (/\ lastAuth.pre.isAuthorized
           /\ now - lastAuth.pre.lastAuthAttempt < 24 * UnitsPerHour)
     /\ policy.autoAuthorizeKnownDevices
     /\ dev[lastAuth.dev].deviceClass \in {3, 9, 7, 8})
    => /\ lastAuth.returned
       /\ lastAuth.result.authorized
       /\ lastAuth.result.reason = "Known device type"
       /\ deviceStates[lastAuth.dev].isAuthorized
       /\ \A i \in DOMAIN lastAuth.steps :
             lastAuth.steps[i] \notin
                 {"systemPolicy", "certificate", "custom", "prompt"}

\* C9: a high speed mass storage device, which the system policy would
\* refuse, was authorized as a known device type
C9_Witness ==
    /\ lastAuth.dev # "none"
    /\ policy.autoAuthorizeKnownDevices /\ policy.enforceSystemPolicies
    /\ dev[lastAuth.dev].deviceClass = 8
    /\ dev[lastAuth.dev].speed = 3
    /\ lastAuth.result.reason = "Known device type"
    /\ deviceStates[lastAuth.dev].isAuthorized

\* C10: in SpecAuth, an authorizeDevice call that reaches the certificate
\* check while no trusted certificate is configured returns a denial with
\* "Certificate validation failed", leaves the device unauthorized and runs
\* neither the custom method nor the prompt.
C10_NoCertificateDenies ==
    (/\ lastAuth.dev # "none"
     /\ policy.checkDeviceCertificates
     /\ trustedCertificates = <<>>
     /\ \E i \in DOMAIN lastAuth.steps : lastAuth.steps[i] = "certificate")
    => /\ lastAuth.returned
       /\ ~lastAuth.result.authorized
       /\ lastAuth.result.reason = "Certificate validation failed"
       /\ ~deviceStates[lastAuth.dev].isAuthorized
       /\ \A i \in DOMAIN lastAuth.steps :
             lastAuth.steps[i] \notin {"custom", "prompt"}

\* C11: in SpecAuth, when an authorizeDevice call invokes the custom method
\* registered under the device's vendor:product key and the method denies,
\* the call returns the method's result, records it, shows no prompt and
\* leaves the device unauthorized; when the method grants, the call goes on:
\* to the prompt if the policy requires confirmation, and to "All checks
\* passed" otherwise.
C11_CustomDenialIsFinal ==
    (/\ lastAuth.dev # "none"
     /\ \E i \in DOMAIN lastAuth.steps : lastAuth.steps[i] = "custom")
    => LET d == lastAuth.dev
           key == ToString(dev[d].vendorId) \o ":" \o ToString(dev[d].productId)
           history == deviceStates[d].history
       IN
       /\ key \in DOMAIN customMethods
       /\ IF customMethods[key] = "deny"
          THEN /\ lastAuth.returned
               /\ ~lastAuth.result.authorized
               /\ lastAuth.result.method = "Custom"
               /\ lastAuth.steps[Len(lastAuth.steps)] = "custom"
               /\ ~deviceStates[d].isAuthorized
               /\ history # <<>> /\ history[Len(history)] = lastAuth.result
          ELSE /\ lastAuth.result.method # "Custom"
               /\ IF policy.requireUserConfirmation
                  THEN lastAuth.steps[Len(lastAuth.steps)] = "prompt"
                  ELSE /\ lastAuth.returned
                       /\ lastAuth.result.authorized
                       /\ lastAuth.result.reason = "All checks passed"
                       /\ deviceStates[d].isAuthorized

\* C11: under a policy that requires confirmation, a custom method denied a
\* device and no prompt was shown
C11_Witness ==
    /\ lastAuth.dev # "none"
    /\ policy.requireUserConfirmation
    /\ lastAuth.returned
    /\ lastAuth.result.method = "Custom"
    /\ ~lastAuth.result.authorized
    /\ lastAuth.steps[Len(lastAuth.steps)] = "custom"
    /\ ~deviceStates[lastAuth.dev].isAuthorized

\* C12: in SpecAuth, an authorizeDevice call that shows the confirmation
\* prompt returns, whatever the policy's timeout is; when the user gives no
\* answer the result is a denial and the device stays unauthorized.
C12_PromptCompletes ==
    (/\ lastAuth.dev # "none"
     /\ \E i \in DOMAIN lastAuth.steps : lastAuth.steps[i] = "prompt")
    => /\ lastAuth.returned
       /\ lastAuth.answer = "none" =>
             /\ ~lastAuth.result.authorized
             /\ ~deviceStates[lastAuth.dev].isAuthorized

\* C13: in SpecAuth, every authorizeDevice call that returns has appended
\* the result it returns to the device's history, whichever step of the
\* decision procedure produced the result.
C13_EveryCallRecorded ==
    (lastAuth.dev # "none" /\ lastAuth.returned)
    => LET history == deviceStates[lastAuth.dev].history IN
       /\ history # <<>>
       /\ history[Len(history)] = lastAuth.result
       /\ Len(history) = Len(lastAuth.pre.history) + 1

\* C14: in SpecAuth, revokeAuthorization on a device that is not authorized
\* leaves the device's state as it is and emits nothing; on an authorized
\* device it clears the flag, stamps lastAuthAttempt with the current time,
\* appends one "Authorization revoked" result to the history and emits one
\* deviceAuthorizationRevoked; the device is unauthorized afterwards, so
\* that revoking again changes nothing.
C14_RevokeOnlyWhenAuthorized ==
    [][\A d \in AuthDevs :
         revokeAuthorization(d) =>
           /\ \A other \in Devs \ {d} : deviceStates'[other] = deviceStates[other]
           /\ ~deviceStates'[d].isAuthorized
           /\ IF deviceStates[d].isAuthorized
              THEN /\ deviceStates'[d].lastAuthAttempt = now
                   /\ deviceStates'[d].history =
                          Append(deviceStates[d].history,
                                 [authorized |-> FALSE,
                                  reason |-> "Authorization revoked",
                                  method |-> "Automatic"])
                   /\ Len(signals') = 1
                   /\ signals'[1].signal = "deviceAuthorizationRevoked"
                   /\ signals'[1].dev = d
              ELSE /\ deviceStates'[d] = deviceStates[d]
                   /\ signals' = <<>>]_vars

\* C14: an authorized device was revoked: one notification, one "revoked"
\* entry at the end of its history, the attempt stamped with the current time
C14_Witness ==
    \E d \in AuthDevs :
       /\ Len(signals) = 1
       /\ signals[1].signal = "deviceAuthorizationRevoked"
       /\ signals[1].dev = d
       /\ ~deviceStates[d].isAuthorized
       /\ deviceStates[d].lastAuthAttempt = now
       /\ deviceStates[d].history # <<>>
       /\ deviceStates[d].history[Len(deviceStates[d].history)].reason
             = "Authorization revoked"

\* C15: in SpecConf, whatever levels were set before, while the level is
\* Low, Medium or High the policy of the authorizer is that level's row of
\* the preset table, and a step that changes the level to Custom leaves the
\* policy as it was.
C15_LevelPresets ==
    /\ [](/\ currentLevel = "Low" =>
              policy = [autoAuthorizeKnownDevices |-> TRUE,
                        requireUserConfirmation |-> FALSE,
                        checkDeviceCertificates |-> FALSE,
                        enforceSystemPolicies |-> FALSE,
                        authorizationTimeout |-> 30]
          /\ currentLevel = "Medium" =>
              policy = [autoAuthorizeKnownDevices |-> TRUE,
                        requireUserConfirmation |-> TRUE,
                        checkDeviceCertificates |-> FALSE,
                        enforceSystemPolicies |-> TRUE,
                        authorizationTimeout |-> 30]
          /\ currentLevel = "High" =>
              policy = [autoAuthorizeKnownDevices |-> FALSE,
                        requireUserConfirmation |-> TRUE,
                        checkDeviceCertificates |-> TRUE,
                        enforceSystemPolicies |-> TRUE,
                        authorizationTimeout |-> 15])
    /\ [][(currentLevel # "Custom" /\ currentLevel' = "Custom")
            => policy' = policy]_vars

\* C15: the level went from High to Custom and the policy is still the High
\* row
C15_Witness ==
    /\ currentLevel = "Custom"
    /\ policy.authorizationTimeout = 15
    /\ ~policy.autoAuthorizeKnownDevices
    /\ signals = <<Signal("securityLevelChanged", "none", "Custom")>>

\* C16: in SpecConf, the rule list never holds two rules for the same
\* vendor and product, and addSecurityRule leaves exactly one rule for its
\* pair, the rule of the call, and the rules of the other pairs as they were.
C16_OneRulePerPair ==
    /\ [](\A i, j \in DOMAIN rules :
             (rules[i].vendorId = rules[j].vendorId
              /\ rules[i].productId = rules[j].productId) => i = j)
    /\ [][\A r \in ConfRuleInputs :
            addSecurityRule(r) =>
              LET same(e) == e.vendorId = r.vendorId /\ e.productId = r.productId
              IN
              /\ SelectSeq(rules', same) = <<r>>
              /\ SelectSeq(rules', LAMBDA e : ~same(e))
                    = SelectSeq(rules, LAMBDA e : ~same(e))]_vars

\* C17: in SpecProto, protocol validation passes exactly the devices that are
\* open, have a readable active configuration, declare at most 32
\* interfaces, at most 16 alternate settings on every interface, only
\* interface classes that are common or vendor specific, only endpoints of
\* the four transfer types and no packet size above 16384.
C17_ProtocolValidation ==
    lastSec.op = "validateDeviceProtocol"
    => LET d == lastSec.dev
           c == dev[d].config
       IN
       lastSec.result <=>
         /\ dev[d].isOpen
         /\ c.available
         /\ c.bNumInterfaces <= 32
         /\ \A i \in 1..c.bNumInterfaces :
              /\ c.interface[i].num_altsetting <= 16
              /\ \A j \in 1..c.interface[i].num_altsetting :
                   LET setting == c.interface[i].altsetting[j] IN
                   /\ setting.bInterfaceClass \in {0, 1, 2, 3, 7, 8, 9, 10, 14, 255}
                   /\ \A k \in DOMAIN setting.endpoint :
                        /\ (setting.endpoint[k].bmAttributes % 4) \in {0, 1, 2, 3}
                        /\ setting.endpoint[k].wMaxPacketSize <= 16384

\* C17: a device was rejected whose only fault is a seventeenth alternate
\* setting on its second interface
C17_Witness ==
    /\ lastSec.op = "validateDeviceProtocol"
    /\ ~lastSec.result
    /\ LET c == dev[lastSec.dev].config IN
       /\ dev[lastSec.dev].isOpen /\ c.available
       /\ c.bNumInterfaces = 2
       /\ c.interface[2].num_altsetting = 17
       /\ c.interface[2].altsetting[17].bInterfaceClass = 3
       /\ c.interface[2].altsetting[17].endpoint[1].wMaxPacketSize = 512

\* C18: in SpecProto, every protocol validation that fails has appended a
\* ProtocolViolation event about the device to the event log and announced
\* it with securityEventOccurred.
C18_FailureIsLogged ==
    (lastSec.op = "validateDeviceProtocol" /\ ~lastSec.result)
    => /\ events # <<>>
       /\ events[Len(events)].event = "ProtocolViolation"
       /\ events[Len(events)].deviceId = eventDeviceId(lastSec.dev)
       /\ \E i \in DOMAIN signals :
             /\ signals[i].signal = "securityEventOccurred"
             /\ signals[i].text = "ProtocolViolation"

\* C19: in SpecSec, every SecurityManager::authorizeDevice call that returns
\* has appended a security event about the device to the event log and
\* emitted securityEventOccurred for it: AuthorizationGranted when the call
\* granted, a denial or violation event when it denied; and every revocation
\* the authorizer announces is logged and announced in the same way.
C19_OutcomeIsLogged ==
    /\ (lastSec.op = "authorizeDevice" /\ lastSec.returned)
       => /\ \E i \in DOMAIN signals : signals[i].signal = "securityEventOccurred"
          /\ events # <<>>
          /\ events[Len(events)].deviceId = eventDeviceId(lastSec.dev)
          /\ IF lastSec.result
             THEN events[Len(events)].event = "AuthorizationGranted"
             ELSE events[Len(events)].event
                     \in {"AuthorizationDenied", "UnauthorizedAccess",
                          "PolicyViolation", "ProtocolViolation"}
    /\ (\E i \in DOMAIN signals :
            signals[i].signal = "deviceAuthorizationRevoked")
       => /\ \E i \in DOMAIN signals : signals[i].signal = "securityEventOccurred"
          /\ events # <<>>
          /\ events[Len(events)].description = "Device authorization revoked"

C21_ArrivalPrecedesTelemetry ==
    \A o \in DOMAIN objects :
       (\/ o \in DOMAIN powerTimers
        \/ o \in DOMAIN bwTimers
        \/ o \in powerStats
        \/ o \in bwStats
        \/ \E i \in DOMAIN signals :
              /\ signals[i].signal \in {"powerStatsUpdated", "statsUpdated"}
              /\ signals[i].text = ToString(o))
       => objects[o].announced

\* the key under which the SecurityManager and the DeviceAuthorizer hold
\* the native device of a registry key (part_010 lines 631-633)
securityKeyOf(key) ==
    LET n == CHOOSE x \in NativeDevices : getDeviceIdentifier(x) = key IN
    ToString(n.idVendor) \o ":" \o ToString(n.idProduct)

\* C22: in SpecReg, a device object is monitored (it has a power or a
\* bandwidth timer, or statistics are held or published for it) only when
\* the SecurityManager holds an authorization for its device.
C22_SampledOnlyWhenAuthorized ==
    \A o \in DOMAIN objects :
       (\/ o \in DOMAIN powerTimers
        \/ o \in DOMAIN bwTimers
        \/ o \in powerStats
        \/ o \in bwStats)
       => /\ securityKeyOf(objects[o].key) \in DOMAIN authorizedDevices
          /\ authorizedDevices[securityKeyOf(objects[o].key)]

\* C23: in SpecMon, every startMonitoring(d) of the power and of the
\* bandwidth monitor leaves the monitor as it was when d is being monitored
\* (the timer and the statistics of every device stay, nothing is emitted);
\* otherwise d has a timer afterwards, every other device is as before, and
\* an open d was sampled once on the spot: its statistics are stored (and
\* the power sample is published with powerStatsUpdated).
C23_StartMonitoring ==
    [][LET d == lastMon'.device
           others(mon) == [timers |-> Erase(mon.monitoringTimers, d),
                           stats |-> Erase(mon.deviceStats, d)]
       IN
       /\ lastMon'.op = "PowerManager::startMonitoring"
          => IF lastMon'.monitored
             THEN powerMgr' = powerMgr /\ signals' = <<>>
             ELSE /\ d \in DOMAIN powerMgr'.monitoringTimers
                  /\ others(powerMgr') = others(powerMgr)
                  /\ dev[d].isOpen
                     => /\ d \in DOMAIN powerMgr'.deviceStats
                        /\ signals' = <<Signal("powerStatsUpdated", d, "")>>
       /\ lastMon'.op = "BandwidthMonitor::startMonitoring"
          => IF lastMon'.monitored
             THEN bwMonitor' = bwMonitor /\ signals' = <<>>
             ELSE /\ d \in DOMAIN bwMonitor'.monitoringTimers
                  /\ others(bwMonitor') = others(bwMonitor)
                  /\ dev[d].isOpen
                     => /\ d \in DOMAIN bwMonitor'.deviceStats
                        /\ bwMonitor'.deviceStats[d] # TransferStats
      ]_vars

\* a device the bandwidth monitor holds no sample of
neverSampled(d) ==
    \/ d \notin DOMAIN bwMonitor.deviceStats
    \/ bwMonitor.deviceStats[d] = TransferStats

\* what C24 says of the steps of SpecMon: after every stopMonitoring(d) the
\* monitor holds neither a timer nor statistics for d and leaves the other
\* devices alone, and when d was not being monitored the monitor is as it
\* was; a timeout only runs for a device that has a timer
stopSteps ==
    LET d == lastMon'.device
        others(mon) == [timers |-> Erase(mon.monitoringTimers, d),
                        stats |-> Erase(mon.deviceStats, d)]
    IN
    /\ lastMon'.op = "PowerManager::stopMonitoring"
       => /\ d \notin DOMAIN powerMgr'.monitoringTimers
          /\ d \notin DOMAIN powerMgr'.deviceStats
          /\ others(powerMgr') = others(powerMgr)
          /\ ~lastMon'.monitored => powerMgr' = powerMgr
          /\ bwMonitor' = bwMonitor
    /\ lastMon'.op = "BandwidthMonitor::stopMonitoring"
       => /\ d \notin DOMAIN bwMonitor'.monitoringTimers
          /\ d \notin DOMAIN bwMonitor'.deviceStats
          /\ others(bwMonitor') = others(bwMonitor)
          /\ ~lastMon'.monitored => bwMonitor' = bwMonitor
          /\ powerMgr' = powerMgr
    /\ lastMon'.op = "PowerManager::timeout"
       => d \in DOMAIN powerMgr.monitoringTimers
    /\ lastMon'.op = "BandwidthMonitor::timeout"
       => d \in DOMAIN bwMonitor.monitoringTimers

\* C24 as stated: in SpecMon, stopMonitoring(d) takes the timer and the
\* statistics of d away and nothing else, so that no timeout runs for d and
\* the getters return the zero-valued snapshot for a device that is not
\* monitored; and the getters return the zero-valued snapshot for every
\* device no sample is held of.
C24_StopDiscards ==
    /\ [][stopSteps]_vars
    /\ [](\A d \in Devs :
            /\ d \notin DOMAIN powerMgr.monitoringTimers
               => getDevicePowerStats(d) = ZeroPowerStats
            /\ d \notin DOMAIN bwMonitor.monitoringTimers
               => getDeviceStats(d) = ZeroBandwidthStats
            /\ d \notin DOMAIN powerMgr.deviceStats
               => getDevicePowerStats(d) = ZeroPowerStats
            /\ neverSampled(d) => getDeviceStats(d) = ZeroBandwidthStats)

\* C24 as the code has it: the same, except that the bandwidth snapshot of a
\* monitored device no sample is held of has zero counters and speeds and
\* carries the speed class of the device.
C24_StopDiscardsButSpeedClass ==
    /\ [][stopSteps]_vars
    /\ [](\A d \in Devs :
            /\ d \notin DOMAIN powerMgr.monitoringTimers
               => getDevicePowerStats(d) = ZeroPowerStats
            /\ d \notin DOMAIN bwMonitor.monitoringTimers
               => getDeviceStats(d) = ZeroBandwidthStats
            /\ d \notin DOMAIN powerMgr.deviceStats
               => getDevicePowerStats(d) = ZeroPowerStats
            /\ neverSampled(d)
               => getDeviceStats(d) =
                     BandwidthStats(0, 0, ZeroSpeed, ZeroSpeed,
                                    IF d \in DOMAIN bwMonitor.deviceStats
                                    THEN dev[d].speed ELSE 0))

\* a power monitor that has just stopped monitoring an open device, which
\* it had sampled when it started, beside a bandwidth monitor that holds
\* samples of the device
C24_Witness ==
    /\ lastMon.op = "PowerManager::stopMonitoring"
    /\ lastMon.monitored
    /\ dev[lastMon.device].isOpen
    /\ lastMon.device \in DOMAIN bwMonitor.deviceStats
    /\ bwMonitor.deviceStats[lastMon.device].totalBytesRead > 0

\* the synthetic window of C25: the cumulative byte count grows by 4096
\* every 100 ms for 1000 ms
SyntheticHistory == [i \in 1..11 |-> <<(i - 1) * 100, i * 4096>>]

\* the windows the bandwidth monitor holds of device d, one for each
\* direction
windowsOf(d) ==
    IF d \in DOMAIN bwMonitor.deviceStats
    THEN {bwMonitor.deviceStats[d].readHistory,
          bwMonitor.deviceStats[d].writeHistory}
    ELSE {}

\* speed, a fraction of bytes per second, times the milliseconds between the
\* first and the last sample of the window is their difference in bytes
\* times 1000
speedIsQuotient(speed, history) ==
    speed.num * (history[Len(history)][1] - history[1][1])
       = (history[Len(history)][2] - history[1][2]) * 1000 * speed.den

\* C25 as stated: in SpecMon, the speed of every window of at least 2
\* samples is (last bytes - first bytes) / (last time - first time) and
\* that of a shorter window is 0; after every timeout of a bandwidth timer
\* the windows of its device hold no sample older than 5000 ms; the
\* synthetic window gives 40960 bytes per second.
C25_SpeedOverWindow ==
    /\ \A d \in Devs : \A h \in windowsOf(d) :
          IF Len(h) >= 2 THEN speedIsQuotient(calculateSpeed(h), h)
          ELSE calculateSpeed(h) = ZeroSpeed
    /\ lastMon.op = "BandwidthMonitor::timeout"
       => \A h \in windowsOf(lastMon.device) : \A i \in DOMAIN h :
             steadyNow - h[i][1] <= BANDWIDTH_WINDOW
    /\ calculateSpeed(SyntheticHistory) = Ratio(40960, 1)

\* C25 as the code has it: in SpecMon, the speed of every window of at
\* least 2 samples whose first and last sample differ in time is
\* (last bytes - first bytes) / (last time - first time), and that of every
\* other window is 0; no window spans more than 5000 ms, so a timeout that
\* records a sample leaves no sample older than 5000 ms; the synthetic
\* window gives 40960 bytes per second.
C25_SpeedOverPositiveSpan ==
    /\ \A d \in Devs : \A h \in windowsOf(d) :
          IF Len(h) >= 2 /\ h[Len(h)][1] > h[1][1]
          THEN speedIsQuotient(calculateSpeed(h), h)
          ELSE calculateSpeed(h) = ZeroSpeed
    /\ \A d \in Devs : \A h \in windowsOf(d) : \A i \in DOMAIN h :
          /\ h[Len(h)][1] - h[i][1] <= BANDWIDTH_WINDOW
          /\ h[Len(h)][1] <= steadyNow
    /\ calculateSpeed(SyntheticHistory) = Ratio(40960, 1)

\* a timeout has just sampled a device whose read window then holds
\* samples of two ticks, the older one exactly 5000 ms old
C25_Witness ==
    /\ lastMon.op = "BandwidthMonitor::timeout"
    /\ \E d \in DOMAIN bwMonitor.deviceStats :
          LET r == bwMonitor.deviceStats[d].readHistory IN
          /\ Len(r) >= 2
          /\ r[Len(r)][1] = steadyNow
          /\ r[Len(r)][1] > r[1][1]
          /\ r[Len(r)][1] - r[1][1] = BANDWIDTH_WINDOW
          /\ calculateSpeed(r) # ZeroSpeed

\* C29: in SpecMon, a timeout during which a call of libusb fails leaves
\* the snapshots the getters return for its device as they were before the
\* timeout, emits an error signal, and leaves every timer and the
\* statistics of every other device in place.
C29_FailedTickIsSkipped ==
    [][\A d \in Devs :
          (/\ lastMon'.op \in {"PowerManager::timeout",
                               "BandwidthMonitor::timeout"}
           /\ lastMon'.device = d
           /\ lastMon'.failed)
          => /\ getDevicePowerStats(d)' = getDevicePowerStats(d)
             /\ getDeviceStats(d)' = getDeviceStats(d)
             /\ \E i \in DOMAIN signals' : signals'[i].signal = "errorOccurred"
             /\ DOMAIN powerMgr'.monitoringTimers
                   = DOMAIN powerMgr.monitoringTimers
             /\ DOMAIN bwMonitor'.monitoringTimers
                   = DOMAIN bwMonitor.monitoringTimers
             /\ Erase(powerMgr'.deviceStats, d) = Erase(powerMgr.deviceStats, d)
             /\ Erase(bwMonitor'.deviceStats, d)
                   = Erase(bwMonitor.deviceStats, d)
      ]_vars

\* the shorter of a length and a cap
shorter(len, cap) == IF len < cap THEN len ELSE cap

\* every history is at most maxHistorySize long and holds the records that
\* arrived last for its device, oldest first
historiesAreMostRecent ==
    \A d \in DOMAIN analyzer.transferHistory :
       LET history == analyzer.transferHistory[d]
           arrived == arrivedOf(d)
       IN /\ Len(history) <= analyzer.maxHistorySize
          /\ Len(history) <= Len(arrived)
          /\ \A i \in DOMAIN history :
                history[i] = arrived[Len(arrived) - Len(history) + i]

\* C26: in SpecAna, after every recordTransfer and setMaxHistorySize call
\* every history holds at most maxHistorySize records, and they are the
\* records that arrived last for the device, in arrival order; recordTransfer
\* lengthens the history of its device by one record unless it is full, and
\* setMaxHistorySize(n) sets the cap to n and cuts every history that is
\* longer down to n records.
C26_HistoryIsBounded ==
    [][/\ historiesAreMostRecent'
       /\ lastAna'.op = "recordTransfer"
          => \A d \in Devs :
                lastAna'.device = d
                => /\ Len(historyOf(analyzer', d))
                         = shorter(Len(historyOf(analyzer, d)) + 1,
                                   analyzer.maxHistorySize)
                   /\ Erase(analyzer'.transferHistory, d)
                         = Erase(analyzer.transferHistory, d)
                   /\ analyzer'.maxHistorySize = analyzer.maxHistorySize
       /\ lastAna'.op = "setMaxHistorySize"
          => /\ DOMAIN analyzer'.transferHistory
                  = DOMAIN analyzer.transferHistory
             /\ \A d \in DOMAIN analyzer.transferHistory :
                   Len(analyzer'.transferHistory[d])
                      = shorter(Len(analyzer.transferHistory[d]),
                                analyzer'.maxHistorySize)
      ]_vars

\* 1500 records arrived for devA under the default cap: the history holds
\* the records 501..1500
C26_Witness ==
    /\ lastAna.op = "recordTransfer"
    /\ lastAna.device = "devA"
    /\ analyzer.maxHistorySize = DefaultMaxHistorySize
    /\ Len(arrivedOf("devA")) = DefaultMaxHistorySize + 500
    /\ Len(historyOf(analyzer, "devA")) = DefaultMaxHistorySize
    /\ historyOf(analyzer, "devA")[1].timestamp = 501
    /\ historyOf(analyzer, "devA")[DefaultMaxHistorySize].timestamp
          = DefaultMaxHistorySize + 500

\* setMaxHistorySize(1) has cut two histories at once
twoHistoriesCut ==
    /\ lastAna.op = "setMaxHistorySize"
    /\ analyzer.maxHistorySize = 1
    /\ \A d \in Devs : /\ Len(arrivedOf(d)) >= 2
                        /\ Len(historyOf(analyzer, d)) = 1

\* the pattern the last call built from the history of its device
builtPattern(d) ==
    /\ lastAna.op = "analyzeTransferPatterns"
    /\ lastAna.device = d
    /\ lastAna.pattern # NoPattern

\* the records of endpoint e in a history, and those with a non-zero status
transfersOn(history, e) ==
    {i \in DOMAIN history : history[i].endpointAddress = e}

failuresOn(history, e) ==
    {i \in transfersOn(history, e) : history[i].status # 0}

tenOfHundredFailed ==
    /\ builtPattern("devA")
    /\ Cardinality(transfersOn(historyOf(analyzer, "devA"), 129)) = 100
    /\ Cardinality(failuresOn(historyOf(analyzer, "devA"), 129)) = 10
    /\ lastAna.pattern.problematicEndpoints = <<>>

\* the bytes moved on endpoint e by the records from..to of a history
RECURSIVE bytesOn(_, _, _, _)
bytesOn(history, e, from, to) ==
    IF from > to THEN 0
    ELSE IF from = to
         THEN IF from \in transfersOn(history, e) THEN history[from].size
              ELSE 0
         ELSE bytesOn(history, e, from, (from + to) \div 2)
              + bytesOn(history, e, (from + to) \div 2 + 1, to)

\* the average size of the transfers on endpoint e, as a fraction
averageOn(history, e) ==
    [num |-> bytesOn(history, e, 1, Len(history)),
     den |-> Cardinality(transfersOn(history, e))]

\* two averages are at most one byte apart
withinOneByte(a, b) ==
    /\ a.num * b.den - b.num * a.den <= a.den * b.den
    /\ b.num * a.den - a.num * b.den <= a.den * b.den

\* C28: in SpecAna, the pattern analyzeTransferPatterns builds from a
\* non-empty history has hasRegularTransferSizes exactly when the average
\* transfer size of every endpoint is within one byte of the average of the
\* first endpoint (the lowest address), and its primaryEndpoint is an
\* endpoint no other endpoint has more transfers than.
C28_RegularSizesAndPrimary ==
    \A d \in Devs :
       builtPattern(d)
       => LET history == historyOf(analyzer, d)
              used == {e \in 0..255 : transfersOn(history, e) # {}}
              first == CHOOSE e \in used : \A o \in used : e <= o
          IN /\ lastAna.pattern.hasRegularTransferSizes
                <=> \A e \in used : withinOneByte(averageOn(history, e),
                                                   averageOn(history, first))
             /\ lastAna.pattern.primaryEndpoint \in used
             /\ \A e \in used :
                   Cardinality(transfersOn(history, e))
                      <= Cardinality(transfersOn(history,
                                        lastAna.pattern.primaryEndpoint))

\* an error signal with the given text is among the signals
reported(sigs, text) ==
    \E i \in DOMAIN sigs : sigs[i].signal = "error" /\ sigs[i].text = text

\* C30: in SpecReg, the step in which libusb_init fails emits error and adds
\* nothing to the registry, a poll whose enumeration fails (it emits error)
\* adds nothing either, and no operation ever calls through a collaborator
\* that was not created: no thread is killed, also not by a poll that
\* follows a failed initialisation.
C30_FailureIsSurvived ==
    [][/\ phase = "constructor" /\ phase' = "failed"
          => /\ reported(signals', "Failed to initialize libusb")
             /\ devices' = devices /\ objects' = objects
             /\ devices' = NoObjects
       /\ reported(signals', "Failed to get device list")
          => /\ devices' = devices /\ objects' = objects
             /\ thread'["loop"].op = "idle"
       /\ \A t \in Threads : thread'[t].op # "crash"
      ]_vars

\* the n results a history ends with, or all of them
newestOf(history, n) ==
    IF Len(history) > n
    THEN [i \in 1..n |-> history[Len(history) - n + i]]
    ELSE history

\* C31: in SpecHistory, every authorizeDevice and revokeAuthorization call
\* leaves every history at no more than 100 results; the history of the
\* device it was called for is as before or is the old history with one
\* result added at the end and, when that makes 101, the oldest one
\* dropped; a revocation of an authorized device adds its result, and what
\* an authorizeDevice call adds is the result it returns.
C31_HistoryKeepsNewest ==
    [][\A d \in Devs :
         LET old == deviceStates[d].history
             new == deviceStates'[d].history
             revoked == createResult(FALSE, "Authorization revoked",
                                     "Automatic")
         IN /\ Len(new) <= maxHistorySize
            /\ authCalls' # authCalls
               => \/ new = old
                  \/ /\ lastAuth'.dev = d
                     /\ new = newestOf(Append(old, lastAuth'.result),
                                        maxHistorySize)
                  \/ /\ lastAuth' = NoCall
                     /\ new = newestOf(Append(old, revoked), maxHistorySize)
            /\ (DeviceAuthorizer_revokeAuthorization(d)
                /\ deviceStates[d].isAuthorized)
               => new = newestOf(Append(old, revoked), maxHistorySize)
      ]_vars

\* a call has added a result to a history of 100 results: the oldest result
\* is gone and the others have moved up
C31_Witness ==
    /\ lastAuth.dev = "devA"
    /\ lastAuth.returned
    /\ Len(lastAuth.pre.history) = maxHistorySize
    /\ Len(deviceStates["devA"].history) = maxHistorySize
    /\ deviceStates["devA"].history[maxHistorySize] = lastAuth.result
    /\ \A i \in 1..(maxHistorySize - 1) :
          deviceStates["devA"].history[i] = lastAuth.pre.history[i + 1]
    /\ deviceStates["devA"].history # lastAuth.pre.history

\* an authorized device with 100 results was revoked
fullHistoryRevoked ==
    /\ authCalls > 0
    /\ lastAuth = NoCall
    /\ signals # <<>>
    /\ Len(deviceStates["devA"].history) = maxHistorySize
    /\ deviceStates["devA"].history[maxHistorySize].reason
          = "Authorization revoked"
    /\ deviceStates["devA"].history[1].reason = "Authorization revoked"
    /\ ~deviceStates["devA"].isAuthorized

newestEvents(log, n) ==
    IF Len(log) <= n THEN log ELSE SubSeq(log, Len(log) - n + 1, Len(log))

inOrderOfOccurrence(log) ==
    \A i \in 1..(Len(log) - 1) : log[i].timestamp <= log[i + 1].timestamp

\* the events of log from start to end, both included, as the slice of the
\* log between the events that are too early and the events that are too late
eventsBetween(log, start, end) ==
    SubSeq(log,
           1 + Cardinality({i \in 1..Len(log) : log[i].timestamp < start}),
           Cardinality({i \in 1..Len(log) : log[i].timestamp <= end}))

\* C32: the event log never holds more than maxEventHistory events and holds
\* them in order of occurrence: it starts in order, its last event is never
\* later than the clock, and a call that logs leaves the newest
\* maxEventHistory events of the old log followed by its own events, each
\* stamped with the time of the call and the security level active then;
\* getSecurityEvents(start, end) returns the logged events with
\* start <= timestamp <= end, in the order of the log
C32_EventLogBounded ==
    /\ inOrderOfOccurrence(events)
    /\ [](/\ Len(events) <= maxEventHistory
          /\ events # <<>> => events[Len(events)].timestamp <= now)
    /\ [][
       /\ (secCalls' # secCalls /\ lastSec'.op = "isDeviceAllowed") =>
             /\ lastSec'.logged # <<>>
             /\ events' = newestEvents(
                    events \o [i \in 1..Len(lastSec'.logged) |->
                                 [event |-> lastSec'.logged[i].event,
                                  timestamp |-> now,
                                  deviceId |-> eventDeviceId(lastSec'.dev),
                                  description |->
                                      lastSec'.logged[i].description,
                                  securityLevel |-> currentLevel]],
                    10000)
       /\ (secCalls' # secCalls /\ lastSec'.op = "none") =>
             /\ lastQuery'.asked
             /\ lastQuery'.result
                  = eventsBetween(events, lastQuery'.start, lastQuery'.end)
      ]_vars

\* a refusal was logged into a full log after the level went to Low: the
\* first Medium event is gone and the new event is the last one
C32_Witness ==
    /\ lastSec.op = "isDeviceAllowed"
    /\ lastSec.logged # <<>>
    /\ Len(events) = maxEventHistory
    /\ events[1].securityLevel = "High"
    /\ events[2].securityLevel = "Medium"
    /\ currentLevel = "Low"
    /\ events[maxEventHistory].securityLevel = "Low"
    /\ events[maxEventHistory].timestamp = now
    /\ events[maxEventHistory - 1].timestamp < now

\* a query for one instant returned some of the events of a full log, but
\* neither the first nor the last
eventsOfOneInstant ==
    /\ lastQuery.asked
    /\ lastQuery.start = lastQuery.end
    /\ Len(events) = maxEventHistory
    /\ lastQuery.result # <<>>
    /\ events[1].timestamp < lastQuery.start
    /\ events[maxEventHistory].timestamp > lastQuery.end
    /\ Len(lastQuery.result) < Len(events)

\* an access to a structure of a component, with or without the mutex of the
\* component held
Access(structure, guarded) == [structure |-> structure, guarded |-> guarded]

\* part_008 lines 94-131 and BandwidthMonitor.cpp lines 117-155: what
\* startMonitoring and stopMonitoring of the two monitors touch; only the
\* statistics of the BandwidthMonitor (line 137) and the erase of the
\* statistics (part_008 line 128, BandwidthMonitor.cpp line 152) are locked
monitorAccesses(starting) ==
    {Access("PowerManager.monitoringTimers", FALSE),
     Access("BandwidthMonitor.monitoringTimers", FALSE),
     Access("BandwidthMonitor.deviceStats", TRUE)}
    \cup (IF starting THEN {} ELSE {Access("PowerManager.deviceStats", TRUE)})

\* the accesses the next step of thread t makes
accessesAt(t) ==
    LET me == thread[t] IN
    CASE me.op = "arrival" /\ me.step \in {"check", "insert"} ->
            {Access("DeviceManager.devices", TRUE)}
      [] me.op = "arrival" /\ me.step = "create" /\ ~collaboratorsAreNull ->
            monitorAccesses(TRUE)
      [] me.op = "removal" /\ me.step = "erase" ->
            {Access("DeviceManager.devices", TRUE)}
      [] me.op = "removal" /\ me.step = "stop" /\ ~collaboratorsAreNull ->
            monitorAccesses(FALSE)
      [] me.op = "poll" /\ me.step = "snapshot" ->
            {Access("DeviceManager.devices", TRUE)}
      [] me.op = "poll" /\ me.step \in {"scan", "sweep"} /\ me.list # <<>> ->
            {Access("DeviceManager.devices", TRUE)}
      [] me.op = "powerTick" ->
            {Access("PowerManager.deviceStats", TRUE)}
      \* BandwidthMonitor.cpp line 32: deviceStats[device] in the timeout
      [] t = "loop" /\ me.op = "idle"
            /\ \E o \in DOMAIN bwTimers :
                  Fires(bwTimers, o) /\ objects[o].isOpen ->
            {Access("BandwidthMonitor.deviceStats", FALSE)}
      [] OTHER -> {}

\* C33: the two threads never access the device map of the registry or a
\* map of a monitor at the same time: whenever the next steps of both touch
\* the same structure, both hold the mutex of the component
C33_AccessUnderMutex ==
    \A t \in Threads : \A u \in Threads \ {t} :
       \A a \in accessesAt(t) : \A b \in accessesAt(u) :
          a.structure = b.structure => a.guarded /\ b.guarded

\* C34: no mutex of a component is held while a signal is published or a
\* callback runs, and a subscriber or callback that calls back into the
\* component returns
C34_NoMutexAcrossCallbacks ==
    /\ lastCallback.holds = "none"
    /\ lastCallback.reentered => lastCallback.returned

\* a custom method that calls back into the authorizer never returned
customMethodBlocked ==
    /\ lastCallback.signal = "customMethod"
    /\ lastCallback.reentered /\ ~lastCallback.returned
    /\ ~lastAuth.returned
    /\ authMutex = "stuck"

\* a subscriber of securityEventOccurred called back and returned
eventSubscriberReturned ==
    /\ lastCallback.signal = "securityEventOccurred"
    /\ lastCallback.reentered /\ lastCallback.returned
    /\ lastCallback.holds = "none"

\* C35: every authorizeDevice call returns a result, under every policy, for
\* every device, with or without trusted certificates and custom methods;
\* none blocks in one of its checks on the mutex the call itself holds
C35_AuthorizeDeviceTerminates ==
    /\ lastAuth.dev # "none" => lastAuth.returned
    /\ authMutex # "stuck"

\* C36: no pollDevices call blocks on devicesMutex when it hands a key it
\* found missing from the registry, or from the enumeration, to the arrival
\* or the removal handler
C36_PollTerminates ==
    ~ (thread["loop"].op = "deadlock" /\ thread["loop"].nested)

registered(object) == \E k \in DOMAIN devices : devices[k] = object

monitored == DOMAIN powerTimers \cup DOMAIN bwTimers

\* C37: no monitor outlives its record: every object with a power or a
\* bandwidth timer is in the registry, or in the hands of the arrival handler
\* that is about to register it; a removal handler that has dropped the
\* record has stopped the timers of the object before
C37_NoMonitorOutlivesRecord ==
    \A o \in monitored :
       \/ registered(o)
       \/ \E t \in Threads :
             /\ thread[t].op = "arrival"
             /\ thread[t].step = "insert"
             /\ thread[t].obj = o

\* the registry was cleared by the destructor while timers were running
tornDownWithTimers ==
    /\ phase = "teardown"
    /\ devices = NoObjects
    /\ monitored # {}

\* C38: an isDeviceAllowed call for a device whose vendor:product pair has
\* no rule (any more), a rule that is not whitelisted or a rule past its
\* expiry date returns false, also when the pair was authorized before
C38_ChangedRuleDenies ==
    (lastSec.op = "isDeviceAllowed" /\ lastSec.returned)
    => LET rule == findMatchingRule(lastSec.dev) IN
       (~rule.isWhitelisted \/ ruleExpired(rule)) => ~lastSec.result

\* C39: right after an authorizeDevice call of the DeviceAuthorizer that
\* returned, isAuthorized(device) is the authorized field of the result, also
\* after the cached grant and after a denial of a device whose earlier
\* authorization has expired; and a SecurityManager::revokeAuthorization
\* call that returns leaves isAuthorized(device) false and no entry for the
\* vendor:product pair in authorizedDevices
C39_FlagFollowsResult ==
    /\ []((lastAuth.dev # "none" /\ lastAuth.returned)
          => (isAuthorized(lastAuth.dev) <=> lastAuth.result.authorized))
    /\ [][\A d \in AuthDevs :
            (SecurityManager_revokeAuthorization(d) /\ authMutex = "free")
            => /\ ~deviceStates'[d].isAuthorized
               /\ deviceKey(d) \notin DOMAIN authorizedDevices'
               /\ deviceStates[d].isAuthorized =>
                     /\ signals' # <<>>
                     /\ signals'[1].signal = "deviceAuthorizationRevoked"
         ]_vars

\* a device that was authorized more than a day ago was evaluated again
\* and denied
C39_Witness ==
    /\ lastAuth.dev # "none"
    /\ lastAuth.returned
    /\ lastAuth.pre.isAuthorized
    /\ isAuthorizationExpired(lastAuth.pre, now)
    /\ ~lastAuth.result.authorized
    /\ ~deviceStates[lastAuth.dev].isAuthorized
    /\ ~isAuthorized(lastAuth.dev)

\* the cached grant: the call returned "Already authorized"
cachedGrantHolds ==
    /\ lastAuth.dev # "none"
    /\ lastAuth.result.reason = "Already authorized"
    /\ isAuthorized(lastAuth.dev)
    /\ deviceKey(lastAuth.dev) \in DOMAIN authorizedDevices

\* a revocation through the SecurityManager was published and logged
revokedThroughManager ==
    /\ Len(signals) = 2
    /\ signals[1].signal = "deviceAuthorizationRevoked"
    /\ signals[2].signal = "securityEventOccurred"
    /\ ~isAuthorized(signals[1].dev)
    /\ authorizedDevices = EmptyMap
    /\ rules # <<>>

\* C40: at most one benchmark thread is active at any time, a thread whose
\* run was stopped issues no more transfers, a stopped tool stays stopped
\* until the next startBenchmark, and startBenchmark returns false while a
\* thread is active
C40_OneWorkerAndStopStops ==
    /\ Cardinality(active) <= 1
    /\ \A w \in 1..Len(workers) : workers[w].afterStop = 0
    /\ lastBench.op = "stopBenchmark" => ~running
    /\ (lastBench.op = "startBenchmark" /\ lastBench.active > 0)
          => ~lastBench.result

\* the thread of a stopped run went on with transfers beside the thread of
\* the next run
stoppedWorkerGoesOn ==
    /\ Len(workers) = 2
    /\ active = {1, 2}
    /\ workers[1].stopped /\ workers[1].afterStop > 0
    /\ workers[2].transfers > 0

====
